---- MODULE Spec2Model ----
(***************************************************************************)
(* A model of the sprite compositing engine of MG-Sprite-Customiser:       *)
(*   - RenderCache (src/src/renderer/render-cache.ts, lines 1-65)          *)
(*   - resolveActiveMutations (src/src/renderer/icon-layout.ts, 267-289)   *)
(*   - applyMutations / applyMaskedFilter (mutation-engine.ts, part_001)   *)
(*   - renderSlot (src/src/renderer/render-cache.ts, lines 88-339)         *)
(* Each subsystem has its own specification over the shared variables.     *)
(***************************************************************************)
EXTENDS Integers, Sequences, FiniteSets, TLC

VARIABLES
    \* ---- RenderCache -------------------------------------------------
    entries,     \* Map<string, CacheEntry> as a sequence in insertion order
    now,         \* the value Date.now() returns
    freed,       \* canvases whose width and height were set to 0
    \* ghost state of the cache: what the last operation did
    recency,     \* the keys present, least recently get/set first
    cacheOp,     \* record describing the last cache operation
    ops,         \* the number of cache operations made so far
    \* ---- resolveActiveMutations ---------------------------------------
    selected,    \* the array passed as `selected`
    active,      \* the array the last call returned
    resolved,    \* the call on the current `selected` has returned
    arg,         \* ghost: `selected` as it was when the last call was made
    first,       \* ghost: the first call's input, result and unknown ids, or {}
    \* ---- applyMutations ------------------------------------------------
    baseCanvas,  \* the pixels of the canvas being mutated
    originalBase,\* the snapshot of line 50-53, {} before it is taken
    pipeline,    \* the steps built by lines 27-42
    stepNo,      \* the number of steps applied so far
    phase,       \* "idle", "steps" or "done"
    call,        \* the arguments: selectedMutations, isTall, customTint
    supported,   \* SUPPORTED_BLEND_OPS of the runtime
    input,       \* ghost: the pixels before applyMutations was called
    lastStep,    \* ghost: what the last step was and what it read
    \* ---- renderSlot ----------------------------------------------------
    slot,        \* the Slot object handed to renderSlot
    rs,          \* the renderSlot call in flight: where it waits, its locals
    made,        \* what each canvas renderSlot finished shows, by canvas
    calls,       \* ghost: the renderSlot calls that have settled, in order
    edits,       \* the number of slot edits made so far
    \* ---- renderAll and the editor's render triggers ---------------------
    slots,       \* state.slots: what renderAll reads of each slot
    runs,        \* the renderAll calls on the preview canvas, in start order
    output,      \* ghost: the clears and draws on the preview canvas, in order
    \* ---- FrameScheduler -------------------------------------------------
    frames,      \* the delay of each frame, in units of 10 ms
    currentIndex,\* 0-based index of the current frame
    animationId, \* {} for null, else the id of the last request
    requested,       \* the host's animation frame requests, in request order
    dueQ,        \* the requests due in the current frame and not yet run
    lastFrameTime,
    playing,
    onFrame,     \* "none" for null, else what the registered callback does
    perfNow,     \* performance.now(), in units of 10 ms
    refresh,     \* the host's interval between animation frames
    session,     \* ghost: {t} when play() at t, on frame 0, had only ticks since
    lastCall,    \* ghost: the last call, the state before it, its callbacks
    \* ---- decodeGif ------------------------------------------------------
    numFrames,   \* reader.numFrames()
    infos,       \* ghost: the frameInfo of the frames decoded so far
    compCanvas,  \* the compositing canvas: per pixel, 0 or the frame shown
    decoded,     \* the local `frames`: the output frames so far, each with
                 \* (ghost) the compositing canvas before the frame was drawn
    returned,    \* decodeGif has returned
    \* ---- encodeGif ------------------------------------------------------
    gifJsLoaded,
    workerBlobUrl, \* a blob URL has been stored
    gifDefined,  \* the global GIF is defined
    encs,        \* the encodeGif calls, in call order
    \* ---- computeIconLayout ----------------------------------------------
    layoutArgs,  \* the arguments of the call
    layout,      \* <<>> before the call, then the IconLayout returned
    \* ---- hitTestSlot ----------------------------------------------------
    probe,       \* ghost: <<>>, then the cache lookup of the hit-test
    \* ---- SpriteLoader --------------------------------------------------
    cache,       \* the URLs that have an image in the cache
    pending,     \* the pending map: URL and promise
    queue,       \* the QueueItems: url, priority and (ghost) the call's number
    activeCount,
    lruOrder,
    fetching,    \* the items whose fetchImage has not ended
    waiting,     \* ghost: the load() calls not settled, and their promise
    nLoads,      \* ghost: the number of load() calls made
    lastLoad,    \* ghost: the last call or fetch end, and what it started
    \* ---- App.downloadGIF -----------------------------------------------
    staticCanvases, \* the surfaces the export has got from renderSlot
    exportPc,    \* "idle", "static" (lines 988-993) or "frames" (997-1041)
    blank,       \* ghost: the surfaces that had size 0 when they were drawn
    \* ---- pure functions -------------------------------------------------
    fnCall,      \* the arguments of the call being made, <<>> before any
    fnResult,    \* what the call returned, <<>> until it has returned
    \* ---- store (state, undo and redo) -----------------------------------
    stateSlots,  \* state.slots
    activeSlotIndex, \* state.activeSlotIndex
    undoStack,   \* state.undoStack
    redoStack,   \* state.redoStack
    batchUndoPushed, \* the flag beginBatchUpdate sets and its timer resets
    lastEdit     \* ghost: the last store operation and the state it found

cacheVars == <<entries, now, freed, recency, cacheOp, ops>>

resolveVars == <<selected, active, resolved, arg, first>>

pixelVars == <<baseCanvas, originalBase, pipeline, stepNo, phase, call,
               supported, input, lastStep>>

renderVars == <<slot, rs, made, calls, edits>>

compositeVars == <<slots, runs, output>>

\* The variables of the subsystems other than the four above.
schedVars == <<frames, currentIndex, animationId, requested, dueQ, lastFrameTime,
               playing, onFrame, perfNow, refresh, session, lastCall>>

decodeVars == <<numFrames, infos, compCanvas, decoded, returned>>

encodeVars == <<gifJsLoaded, workerBlobUrl, gifDefined, encs>>

layoutVars == <<layoutArgs, layout>>

hitVars == <<probe>>

loaderVars == <<cache, pending, queue, activeCount, lruOrder, fetching, waiting,
                nLoads, lastLoad>>

exportVars == <<staticCanvases, exportPc, blank>>

fnVars == <<fnCall, fnResult>>

storeVars == <<stateSlots, activeSlotIndex, undoStack, redoStack, batchUndoPushed,
               lastEdit>>

otherVars ==
    <<compositeVars, schedVars, decodeVars, encodeVars, layoutVars, hitVars,
      loaderVars, exportVars, fnVars, storeVars>>

coreVars == <<cacheVars, resolveVars, pixelVars, renderVars>>

\* What the actions of a subsystem leave alone.
outsideComposite ==
    <<coreVars, schedVars, decodeVars, encodeVars, layoutVars, hitVars,
      loaderVars, exportVars, fnVars, storeVars>>

outsideSched ==
    <<coreVars, compositeVars, decodeVars, encodeVars, layoutVars, hitVars,
      loaderVars, exportVars, fnVars, storeVars>>

outsideDecode ==
    <<coreVars, compositeVars, schedVars, encodeVars, layoutVars, hitVars,
      loaderVars, exportVars, fnVars, storeVars>>

outsideEncode ==
    <<coreVars, compositeVars, schedVars, decodeVars, layoutVars, hitVars,
      loaderVars, exportVars, fnVars, storeVars>>

outsideLayout ==
    <<coreVars, compositeVars, schedVars, decodeVars, encodeVars, hitVars,
      loaderVars, exportVars, fnVars, storeVars>>

outsideHit ==
    <<resolveVars, pixelVars, compositeVars, schedVars, decodeVars, encodeVars,
      layoutVars, loaderVars, exportVars, fnVars, storeVars>>

outsideLoader ==
    <<coreVars, compositeVars, schedVars, decodeVars, encodeVars, layoutVars,
      hitVars, exportVars, fnVars, storeVars>>

outsideExport ==
    <<resolveVars, pixelVars, renderVars, compositeVars, schedVars, decodeVars,
      encodeVars, layoutVars, hitVars, loaderVars, fnVars, storeVars>>

outsideFn ==
    <<coreVars, compositeVars, schedVars, decodeVars, encodeVars, layoutVars,
      hitVars, loaderVars, exportVars, storeVars>>

outsideStore ==
    <<coreVars, compositeVars, schedVars, decodeVars, encodeVars, layoutVars,
      hitVars, loaderVars, exportVars, fnVars>>

vars == <<entries, now, freed, recency, cacheOp, ops,
          selected, active, resolved, arg, first,
          baseCanvas, originalBase, pipeline, stepNo, phase, call,
          supported, input, lastStep,
          slot, rs, made, calls, edits,
          slots, runs, output,
          frames, currentIndex, animationId, lastFrameTime, playing,
          requested, dueQ, onFrame, perfNow, refresh, session, lastCall,
          numFrames, infos, compCanvas, decoded, returned,
          gifJsLoaded, workerBlobUrl, gifDefined, encs,
          layoutArgs, layout, probe,
          cache, pending, queue, activeCount, lruOrder, fetching, waiting,
          nLoads, lastLoad, staticCanvases, exportPc, blank,
          fnCall, fnResult, stateSlots, activeSlotIndex, undoStack, redoStack,
          batchUndoPushed, lastEdit>>

(***************************************************************************)
(* Bounds of the model.                                                    *)
(***************************************************************************)
\* MAX_ENTRIES is 300 in render-cache.ts line 1; the model scales it down.
MAX_ENTRIES == 2
\* The largest clock reading.
MaxClock == 2
\* The number of get/set/clear calls of the cache specification.
MaxOps == 5
\* The longest list of selected mutation ids.
MaxSel == 3
\* The longest list of mutation ids handed to applyMutations.
MaxPipe == 2
\* The number of slot edits of the render specification.
MaxEdits == 2
\* The number of renderSlot calls of the render specification.
MaxRenders == 2
\* The number of sprite loads that fail in the render specification.
MaxFailures == 2
\* The number of slots in state.slots (MAX_SLOTS is 20 in part_003 line 60).
NumSlots == 3
\* The number of renderAll calls of the composite specification.
MaxRuns == 3
\* The largest performance.now() of the scheduler specification, in units
\* of 10 ms.
MaxTime == 25
\* The number of animation frame requests the host holds at a time.
MaxChains == 2
\* The number of frames of a GIF and the number of pixels of its canvas.
MaxFrames == 3
\* The number of encodeGif calls.
MaxEncodes == 2
\* The worker limit, the cache capacity and the number of load() calls.
MAX_CONCURRENCY == 2
MAX_CACHE_SIZE == 2
MaxLoads == 4
\* The longest slot.mutations of the draw specification.
MaxDrawn == 3
\* The largest known sprite id set of the icon key specification.
MaxKnown == 2
\* The depth of the undo stack (MAX_UNDO is 50 in part_003 line 61) and the
\* number of store operations.
MAX_UNDO == 2
\* The parts of a pixel the draw specification measures lengths in.
Quarter == 4
MaxStoreOps == 3
GifWidth == 3

(***************************************************************************)
(* Sequence helpers.                                                       *)
(***************************************************************************)
Range(s) == {s[i] : i \in 1..Len(s)}

RemoveAt(s, i) == SubSeq(s, 1, i - 1) \o SubSeq(s, i + 1, Len(s))

Without(s, x) == SelectSeq(s, LAMBDA y : y # x)

\* An optional value is the empty set or the set of the value.
The(opt) == CHOOSE x \in opt : TRUE

OptSeq(opt) == IF opt = {} THEN <<>> ELSE <<The(opt)>>

(***************************************************************************)
(* The specifications that do not call applyMutations keep its state here. *)
(***************************************************************************)
PixelIdle ==
    /\ baseCanvas = <<>>
    /\ originalBase = {}
    /\ pipeline = <<>>
    /\ stepNo = 0
    /\ phase = "idle"
    /\ call = <<>>
    /\ supported = {}
    /\ input = <<>>
    /\ lastStep = <<>>

(***************************************************************************)
(* The specifications that do not call renderSlot keep its state here.     *)
(***************************************************************************)
RenderIdle ==
    /\ slot = <<>>
    /\ rs = <<>>
    /\ made = <<>>
    /\ calls = <<>>
    /\ edits = 0

(***************************************************************************)
(* The specifications that do not call renderAll keep its state here.      *)
(***************************************************************************)
CompositeIdle ==
    /\ slots = <<>>
    /\ runs = <<>>
    /\ output = <<>>

SchedIdle ==
    /\ frames = <<>>
    /\ currentIndex = 0
    /\ animationId = {}
    /\ lastFrameTime = 0
    /\ playing = FALSE
    /\ onFrame = "none"
    /\ perfNow = 0
    /\ refresh = 0
    /\ session = {}
    /\ lastCall = <<>>
    /\ requested = <<>>
    /\ dueQ = <<>>

DecodeIdle ==
    /\ numFrames = 0
    /\ infos = <<>>
    /\ compCanvas = <<>>
    /\ decoded = <<>>
    /\ returned = FALSE

EncodeIdle ==
    /\ gifJsLoaded = FALSE
    /\ workerBlobUrl = FALSE
    /\ gifDefined = FALSE
    /\ encs = <<>>

LayoutIdle == layoutArgs = <<>> /\ layout = <<>>

HitIdle == probe = <<>>

LoaderIdle ==
    /\ cache = {} /\ pending = {} /\ queue = <<>> /\ activeCount = 0
    /\ lruOrder = <<>> /\ fetching = {} /\ waiting = {} /\ nLoads = 0
    /\ lastLoad = <<>>

ExportIdle == staticCanvases = {} /\ exportPc = "idle" /\ blank = {}

FnIdle == fnCall = <<>> /\ fnResult = <<>>

StoreIdle ==
    /\ stateSlots = <<>> /\ activeSlotIndex = 0 /\ undoStack = <<>>
    /\ redoStack = <<>> /\ batchUndoPushed = FALSE /\ lastEdit = <<>>

OthersIdle ==
    CompositeIdle /\ SchedIdle /\ DecodeIdle /\ EncodeIdle /\ LayoutIdle /\ HitIdle
    /\ LoaderIdle /\ ExportIdle /\ FnIdle /\ StoreIdle

(***************************************************************************)
(* RenderCache                                                             *)
(***************************************************************************)
\* The keys of the cache specification; "" is the empty string.
CacheKeys == {"", "a", "b", "c"}

\* `Infinity` of evictLru: above every clock reading.
Infinity == MaxClock + 1

KeysOf(es) == {es[i].k : i \in 1..Len(es)}

IndexOf(es, key) == CHOOSE i \in 1..Len(es) : es[i].k = key

\* Map.get
MapHas(es, key) == key \in KeysOf(es)

MapGet(es, key) == es[IndexOf(es, key)]

\* Map.set: an existing key keeps its place in the iteration order.
MapSet(es, key, e) ==
    IF MapHas(es, key)
    THEN [es EXCEPT ![IndexOf(es, key)] = e]
    ELSE Append(es, e)

\* Map.delete
MapDelete(es, key) == SelectSeq(es, LAMBDA e : e.k # key)

\* The loop of evictLru (lines 37-44): the first entry, in iteration order,
\* whose lastUsed is strictly below everything seen before it.
RECURSIVE ScanOldest(_, _, _, _)
ScanOldest(es, i, oldest, oldestKey) ==
    IF i > Len(es) THEN oldestKey
    ELSE IF es[i].lastUsed < oldest
         THEN ScanOldest(es, i + 1, es[i].lastUsed, es[i].k)
         ELSE ScanOldest(es, i + 1, oldest, oldestKey)

OldestKey(es) == ScanOldest(es, 1, Infinity, "")

\* `if (oldestKey)`: the empty string is falsy.
Truthy(key) == key # ""

\* evictLru (lines 36-54): the key it deletes, as a set (empty: none).
EvictedBy(es) ==
    IF Truthy(OldestKey(es)) /\ MapHas(es, OldestKey(es))
    THEN {OldestKey(es)} ELSE {}

EvictLru(es) ==
    IF Truthy(OldestKey(es)) THEN MapDelete(es, OldestKey(es)) ELSE es

\* The canvases evictLru frees.
EvictFrees(es) == {MapGet(es, key).canvas : key \in EvictedBy(es)}

AtCapacity(es) == Len(es) >= MAX_ENTRIES

\* set (lines 29-34)
CacheSet(es, key, canvas, t) ==
    MapSet(IF AtCapacity(es) THEN EvictLru(es) ELSE es, key,
           [k |-> key, canvas |-> canvas, lastUsed |-> t])

SetEvicts(es) == IF AtCapacity(es) THEN EvictedBy(es) ELSE {}

SetFrees(es) == IF AtCapacity(es) THEN EvictFrees(es) ELSE {}

\* get (lines 22-27): the entries after the call.
CacheTouch(es, key, t) ==
    IF MapHas(es, key)
    THEN [es EXCEPT ![IndexOf(es, key)].lastUsed = t]
    ELSE es

\* get (lines 22-27): the result, as a set (empty: null).
CacheGet(es, key) ==
    IF MapHas(es, key) THEN {MapGet(es, key).canvas} ELSE {}

\* Ghost: the order of the get/set operations on the keys present.
Touched(rec, key) == Append(Without(rec, key), key)

RecencyAfterSet(rec, es, key) ==
    Touched(SelectSeq(rec, LAMBDA x : x \notin SetEvicts(es)), key)

\* Ghost: two entries carry the same lastUsed.
HasTies(es) ==
    \E i, j \in 1..Len(es) : i # j /\ es[i].lastUsed = es[j].lastUsed

\* Ghost: the record of an operation that evicts nothing.
NoCacheOp(name, es) ==
    [op |-> name, size |-> Len(es), keys |-> KeysOf(es), fresh |-> FALSE,
     ties |-> HasTies(es), evicted |-> {}, lru |-> {}]

CacheStart ==
    /\ entries = <<>>
    /\ now = 0
    /\ freed = {}
    /\ recency = <<>>
    /\ cacheOp = NoCacheOp("new", <<>>)
    /\ ops = 0

\* Date.now() advances between two operations.
ClockTick ==
    /\ now < MaxClock
    /\ now' = now + 1
    /\ UNCHANGED <<entries, freed, recency, cacheOp, ops>>
    /\ UNCHANGED <<resolveVars, pixelVars, renderVars, otherVars>>

DoGet(key) ==
    /\ ops < MaxOps
    /\ ops' = ops + 1
    /\ entries' = CacheTouch(entries, key, now)
    /\ recency' = IF MapHas(entries, key) THEN Touched(recency, key) ELSE recency
    /\ cacheOp' = NoCacheOp("get", entries)
    /\ UNCHANGED <<now, freed>>
    /\ UNCHANGED <<resolveVars, pixelVars, renderVars, otherVars>>

\* Every set() is handed a canvas of its own, named by the call's number.
DoSet(key) ==
    /\ ops < MaxOps
    /\ ops' = ops + 1
    /\ entries' = CacheSet(entries, key, ops + 1, now)
    /\ freed' = freed \cup SetFrees(entries)
    /\ recency' = RecencyAfterSet(recency, entries, key)
    /\ cacheOp' = [op |-> "set", size |-> Len(entries), keys |-> KeysOf(entries),
                   fresh |-> ~MapHas(entries, key), ties |-> HasTies(entries),
                   evicted |-> SetEvicts(entries),
                   lru |-> IF recency = <<>> THEN {} ELSE {Head(recency)}]
    /\ UNCHANGED now
    /\ UNCHANGED <<resolveVars, pixelVars, renderVars, otherVars>>

\* clear (lines 56-62)
DoClear ==
    /\ ops < MaxOps
    /\ ops' = ops + 1
    /\ entries' = <<>>
    /\ freed' = freed \cup {entries[i].canvas : i \in 1..Len(entries)}
    /\ recency' = <<>>
    /\ cacheOp' = NoCacheOp("clear", entries)
    /\ UNCHANGED now
    /\ UNCHANGED <<resolveVars, pixelVars, renderVars, otherVars>>

CacheNext ==
    \/ ClockTick
    \/ \E key \in CacheKeys : DoGet(key)
    \/ \E key \in CacheKeys : DoSet(key)
    \/ DoClear

(***************************************************************************)
(* resolveActiveMutations (icon-layout.ts lines 267-289)                   *)
(***************************************************************************)
KnownIds == {"Wet", "Chilled", "Frozen", "Thunderstruck", "Dawnlit",
             "Ambershine", "Dawncharged", "Ambercharged", "Gold", "Rainbow"}

\* Ids without an entry in MUTATION_RENDER_ORDER.
UnknownIds == {"Yak", "Zed"}

MutationIds == KnownIds \cup UnknownIds

\* MUTATION_RENDER_ORDER[id] ?? 50 with Gold and Rainbow sharing a rank.
RenderOrderTied(id) ==
    CASE id = "Wet" -> 0
      [] id = "Chilled" -> 1
      [] id = "Frozen" -> 2
      [] id = "Thunderstruck" -> 3
      [] id = "Dawnlit" -> 4
      [] id = "Ambershine" -> 5
      [] id = "Dawncharged" -> 6
      [] id = "Ambercharged" -> 7
      [] id = "Gold" -> 8
      [] id = "Rainbow" -> 8
      [] OTHER -> 50

\* MUTATION_RENDER_ORDER[id] ?? 50 (lines 267-278, 287)
RenderOrder(id) ==
    CASE id = "Wet" -> 0
      [] id = "Chilled" -> 1
      [] id = "Frozen" -> 2
      [] id = "Thunderstruck" -> 3
      [] id = "Dawnlit" -> 4
      [] id = "Ambershine" -> 5
      [] id = "Dawncharged" -> 6
      [] id = "Ambercharged" -> 7
      [] id = "Gold" -> 8
      [] id = "Rainbow" -> 9
      [] OTHER -> 50

\* The comparator handed to sort (line 287).
CompareOrder(a, b) == RenderOrder(a) - RenderOrder(b)

\* Array.prototype.sort is stable: x goes behind every element that does not
\* compare greater than it.
RECURSIVE InsertByOrder(_, _)
InsertByOrder(s, x) ==
    IF s = <<>> THEN <<x>>
    ELSE IF CompareOrder(Head(s), x) > 0 THEN <<x>> \o s
         ELSE <<Head(s)>> \o InsertByOrder(Tail(s), x)

RECURSIVE SortByOrder(_)
SortByOrder(s) ==
    IF s = <<>> THEN <<>>
    ELSE InsertByOrder(SortByOrder(SubSeq(s, 1, Len(s) - 1)), s[Len(s)])

\* A resolveActiveMutations that sorts its argument in place.
ResolveInPlace(sel) == [out |-> SortByOrder(sel), arg |-> SortByOrder(sel)]

\* resolveActiveMutations (lines 285-289): the array returned, and the
\* argument after the call ([...selected] sorts a copy).
ResolveCall(sel) == [out |-> SortByOrder(sel), arg |-> sel]

ResolveActiveMutations(sel) == ResolveCall(sel).out

UnknownOf(s) == SelectSeq(s, LAMBDA id : id \in UnknownIds)

SwapAt(s, i) == [s EXCEPT ![i] = s[i + 1], ![i + 1] = s[i]]

Selections == UNION {[1..n -> MutationIds] : n \in 0..MaxSel}

\* The state of the resolver in the specifications that do not run it.
ResolveIdle ==
    /\ selected = <<>>
    /\ active = <<>>
    /\ resolved = FALSE
    /\ arg = <<>>
    /\ first = {}

ResolveStart ==
    /\ selected \in Selections
    /\ active = <<>>
    /\ resolved = FALSE
    /\ arg = <<>>
    /\ first = {}

\* A call of resolveActiveMutations(selected).
Resolve ==
    /\ ~resolved
    /\ active' = ResolveCall(selected).out
    /\ selected' = ResolveCall(selected).arg
    /\ arg' = selected
    /\ first' = IF first = {}
                THEN {[inp |-> selected, out |-> ResolveCall(selected).out,
                       unknown |-> UnknownOf(selected)]}
                ELSE first
    /\ resolved' = TRUE
    /\ UNCHANGED <<cacheVars, pixelVars, renderVars, otherVars>>

\* The caller passes the same ids in another order: two neighbours swapped.
Reorder(i) ==
    /\ resolved
    /\ selected[i] # selected[i + 1]
    /\ selected' = SwapAt(selected, i)
    /\ resolved' = FALSE
    /\ UNCHANGED <<active, arg, first>>
    /\ UNCHANGED <<cacheVars, pixelVars, renderVars, otherVars>>

ResolveNext ==
    \/ Resolve
    \/ \E i \in 1..(Len(selected) - 1) : Reorder(i)

ResolveInit == CacheStart /\ ResolveStart /\ PixelIdle /\ RenderIdle /\ OthersIdle

SpecResolve == ResolveInit /\ [][ResolveNext]_vars

\* The order the claims give, first to last.
ClaimedOrder == <<"Wet", "Chilled", "Frozen", "Thunderstruck", "Dawnlit",
                  "Ambershine", "Dawncharged", "Ambercharged", "Gold", "Rainbow">>

PlaceOf(id) == CHOOSE i \in 1..Len(ClaimedOrder) : ClaimedOrder[i] = id

Count(s, x) == Cardinality({i \in 1..Len(s) : s[i] = x})

IsPermutationOf(s, t) ==
    /\ Len(s) = Len(t)
    /\ \A x \in Range(s) \cup Range(t) : Count(s, x) = Count(t, x)

(* C5 as stated: for every list of selected ids (known, unknown or mixed) and
   every permutation of it, resolveActiveMutations returns the same output
   sequence. *)
C5_SameOutputForEveryPermutation ==
    (resolved /\ first # {}) => \A f \in first : active = f.out

(* C5 as amended: every permutation of the list that keeps the unknown ids in
   the same relative order yields the same output sequence. *)
C5_SameOutputWhenUnknownOrderKept ==
    (resolved /\ first # {}) =>
        \A f \in first : UnknownOf(arg) = f.unknown => active = f.out

\* A reordered list with known and unknown ids was resolved to the first output.
C5_Witness ==
    /\ resolved
    /\ \E f \in first : UnknownOf(arg) = f.unknown /\ f.inp # arg /\ f.unknown # <<>>
    /\ Len(arg) = MaxSel
    /\ arg # active
    /\ \E i \in 1..Len(arg) : arg[i] \in KnownIds /\ arg[i] # active[i]

(* C6: resolveActiveMutations returns a permutation of its input, leaves the
   input list as it was, orders the known ids Wet, Chilled, Frozen,
   Thunderstruck, Dawnlit, Ambershine, Dawncharged, Ambercharged, Gold,
   Rainbow, and puts every unknown id after all known ids, the unknown ids in
   their original relative order. *)
C6_OrderedPermutation ==
    resolved =>
        /\ IsPermutationOf(active, arg)
        /\ selected = arg
        /\ \A i, j \in 1..Len(active) :
              i < j =>
                /\ active[i] \in UnknownIds => active[j] \in UnknownIds
                /\ (active[i] \in KnownIds /\ active[j] \in KnownIds)
                      => PlaceOf(active[i]) <= PlaceOf(active[j])
        /\ UnknownOf(active) = UnknownOf(arg)

\* A list with two different unknown ids ahead of a known id was resolved.
C6_Witness ==
    /\ resolved
    /\ Len(arg) = MaxSel
    /\ arg[1] \in UnknownIds
    /\ arg[2] \in UnknownIds
    /\ arg[1] # arg[2]
    /\ arg[MaxSel] \in KnownIds
    /\ active # arg

(***************************************************************************)
(* Colour math: FILTERS (icon-layout.ts 219-230), pickBlendOp and          *)
(* applyMaskedFilter (part_001), applyMutations (mutation-engine.ts).      *)
(* A pixel is its 8-bit alpha and its ink: the fills that contribute to    *)
(* its colour with a weight above zero.                                    *)
(***************************************************************************)
Pixels == {"p", "q"}

AlphaLevels == {0, 128, 255}

Ink(colors, ang, span) == [colors |-> colors, ang |-> ang, span |-> span]

SpriteInk == Ink(<<"sprite">>, {}, FALSE)

Texel(al) == [a |-> al, ink |-> IF al = 0 THEN {} ELSE {SpriteInk}]

Sprites == [Pixels -> {Texel(al) : al \in AlphaLevels}]

AlphaOf(canvas) == [p \in DOMAIN canvas |-> canvas[p].a]

FilterDef(op, colors, a, ang, angTall, masked) ==
    [op |-> op, colors |-> colors, a |-> a, ang |-> ang, angTall |-> angTall,
     masked |-> masked]

Tint(rgb, percent) ==
    FilterDef("source-atop", <<rgb>>, {percent}, {}, {}, FALSE)

\* FILTERS (lines 219-230); `a` in percent.
FILTERS(id) ==
    CASE id = "Gold" -> Tint("rgb(235,200,0)", 70)
      [] id = "Rainbow" ->
            FilterDef("color", <<"#FF1744", "#FF9100", "#FFEA00", "#00E676",
                                 "#2979FF", "#D500F9">>, {}, {130}, {0}, TRUE)
      [] id = "Wet" -> Tint("rgb(50,180,200)", 25)
      [] id = "Chilled" -> Tint("rgb(100,160,210)", 45)
      [] id = "Frozen" -> Tint("rgb(100,130,220)", 50)
      [] id = "Thunderstruck" -> Tint("transparent", 0)
      [] id = "Dawnlit" -> Tint("rgb(209,70,231)", 50)
      [] id = "Ambershine" -> Tint("rgb(190,100,40)", 50)
      [] id = "Dawncharged" -> Tint("rgb(140,80,200)", 50)
      [] id = "Ambercharged" -> Tint("rgb(170,60,25)", 50)

HasFilter(id) == id \in KnownIds

\* The alpha of a CSS colour: every colour used is opaque but `transparent`.
ColorAlpha(c) == IF c = "transparent" THEN 0 ELSE 255

\* ctx.globalAlpha after `if (f.a != null) ctx.globalAlpha = f.a`, in percent.
GlobalAlpha(f) == IF f.a = {} THEN 100 ELSE The(f.a)

\* A source pixel drawn under globalAlpha.
Faded(px, percent) ==
    [a |-> (px.a * percent) \div 100,
     ink |-> IF (px.a * percent) \div 100 = 0 THEN {} ELSE px.ink]

(* Porter-Duff operators and blend modes of the 2D context, per pixel:     *)
(* s is the source drawn, d the destination.                               *)
Inked(al, ink) == [a |-> al, ink |-> IF al = 0 THEN {} ELSE ink]

SourceOver(s, d) ==
    Inked(s.a + (d.a * (255 - s.a)) \div 255,
          (IF s.a > 0 THEN s.ink ELSE {})
              \cup (IF d.a > 0 /\ s.a < 255 THEN d.ink ELSE {}))

SourceAtop(s, d) ==
    Inked((s.a * d.a + d.a * (255 - s.a)) \div 255,
          (IF s.a > 0 THEN s.ink ELSE {})
              \cup (IF s.a < 255 THEN d.ink ELSE {}))

DestinationIn(s, d) == Inked((d.a * s.a) \div 255, d.ink)

Lighter(s, d) ==
    Inked(IF s.a + d.a > 255 THEN 255 ELSE s.a + d.a, s.ink \cup d.ink)

\* color, hue, saturation, luminosity, overlay, screen: the blend function
\* reads the backdrop, the result is composited source-over.
Blended(s, d) ==
    Inked(s.a + (d.a * (255 - s.a)) \div 255,
          (IF s.a > 0 THEN s.ink ELSE {}) \cup (IF d.a > 0 THEN d.ink ELSE {}))

Composite(op, s, d) ==
    CASE op = "source-atop" -> SourceAtop(s, d)
      [] op = "source-over" -> SourceOver(s, d)
      [] op = "destination-in" -> DestinationIn(s, d)
      [] op = "lighter" -> Lighter(s, d)
      [] OTHER -> Blended(s, d)

\* The operators the probe of SUPPORTED_BLEND_OPS asks for (part_001 line 23).
ProbedOps == {"color", "hue", "saturation", "luminosity", "overlay", "screen",
              "lighter", "source-atop"}

\* pickBlendOp (part_001 lines 35-41)
PickBlendOp(sup, desired) ==
    IF desired \in sup THEN desired
    ELSE IF "overlay" \in sup THEN "overlay"
    ELSE IF "screen" \in sup THEN "screen"
    ELSE IF "lighter" \in sup THEN "lighter"
    ELSE "source-atop"

\* fillGrad (part_001 lines 70-88): every pixel of the canvas is filled.
FillGrad(colors, ang, span) ==
    LET cols == IF colors = <<>> THEN <<"#fff">> ELSE colors
    IN  [a |-> ColorAlpha(cols[1]), ink |-> {Ink(cols, ang, span)}]

\* applyMaskedFilter (part_001 lines 114-161): the canvas after the call.
ApplyMaskedFilter(canvas, base, filter, isTall, sup) ==
    LET ang == IF isTall /\ filter.angTall # {} THEN filter.angTall ELSE filter.ang
        fullSpan == isTall /\ ang # {}
        blendOp == PickBlendOp(sup, filter.op)
        m == [p \in DOMAIN base |->
                DestinationIn(base[p], FillGrad(filter.colors, ang, fullSpan))]
        blended == [p \in DOMAIN base |->
                Composite(blendOp, Faded(m[p], GlobalAlpha(filter)), base[p])]
    IN  [p \in DOMAIN canvas |-> SourceAtop(blended[p], canvas[p])]

\* The fill of lines 67-72 drawn with source-over.
FlatFillOver(canvas, f) ==
    LET c == IF f.colors = <<>> THEN "#fff" ELSE f.colors[1]
        src == Faded([a |-> ColorAlpha(c), ink |-> {Ink(<<c>>, {}, FALSE)}],
                     GlobalAlpha(f))
    IN  [p \in DOMAIN canvas |-> SourceOver(src, canvas[p])]

\* The non-masked branch of applyMutations (lines 62-73).
FlatFill(canvas, f) ==
    LET c == IF f.colors = <<>> THEN "#fff" ELSE f.colors[1]
        src == Faded([a |-> ColorAlpha(c), ink |-> {Ink(<<c>>, {}, FALSE)}],
                     GlobalAlpha(f))
    IN  [p \in DOMAIN canvas |-> SourceAtop(src, canvas[p])]

\* A masked step that masks with the accumulated canvas.
MaskedStepOnAccumulated(canvas, snapshot, f, isTall, sup) ==
    [canvas |-> ApplyMaskedFilter(canvas, canvas, f, isTall, sup),
     mask |-> canvas]

\* The masked branch (lines 59-61): the canvas after it and the canvas the
\* mask and the clean copy were taken from.
MaskedStep(canvas, snapshot, f, isTall, sup) ==
    [canvas |-> ApplyMaskedFilter(canvas, snapshot, f, isTall, sup),
     mask |-> snapshot]

\* Lines 29-34: the steps of the selected ids that have a filter.
RECURSIVE FilterSteps(_)
FilterSteps(ids) ==
    IF ids = <<>> THEN <<>>
    ELSE (IF HasFilter(Head(ids))
          THEN <<[name |-> Head(ids), filter |-> FILTERS(Head(ids))]>>
          ELSE <<>>) \o FilterSteps(Tail(ids))

\* The Custom step appended for any tint that is passed.
CustomStepsAnyOpacity(customTint) ==
    IF customTint # {}
    THEN <<[name |-> "Custom",
            filter |-> FilterDef("source-atop", <<The(customTint).color>>,
                                 {The(customTint).opacity}, {}, {}, TRUE)]>>
    ELSE <<>>

\* Lines 36-42: the Custom step; customTint is {} when not passed.
CustomSteps(customTint) ==
    IF customTint # {} /\ The(customTint).opacity > 0
    THEN <<[name |-> "Custom",
            filter |-> FilterDef("source-atop", <<The(customTint).color>>,
                                 {The(customTint).opacity}, {}, {}, TRUE)]>>
    ELSE <<>>

\* Lines 24-42
BuildPipeline(sel, customTint) ==
    FilterSteps(ResolveActiveMutations(sel)) \o CustomSteps(customTint)

\* The ids and tints the pixel specification draws its calls from.
PixelIds == {"Wet", "Thunderstruck", "Gold", "Rainbow", "Zed"}

PixelSelections == UNION {[1..n -> PixelIds] : n \in 0..MaxPipe}

CustomTints == {[color |-> "#ffffff", opacity |-> 0],
                [color |-> "#ff0000", opacity |-> 50],
                [color |-> "#ff0000", opacity |-> 100]}

SupportChoices == {ProbedOps, ProbedOps \ {"color"}, {"lighter", "source-atop"}, {}}

PixelStart ==
    /\ baseCanvas \in Sprites
    /\ input = baseCanvas
    /\ call \in [sel : PixelSelections, isTall : BOOLEAN,
                 customTint : {{}} \cup {{t} : t \in CustomTints}]
    /\ supported \in SupportChoices
    /\ originalBase = {}
    /\ pipeline = <<>>
    /\ stepNo = 0
    /\ phase = "idle"
    /\ lastStep = <<>>

\* applyMutations up to the loop (lines 24-53).
ApplyBegin ==
    /\ phase = "idle"
    /\ pipeline' = BuildPipeline(call.sel, call.customTint)
    /\ IF pipeline' = <<>>
       THEN phase' = "done" /\ originalBase' = originalBase
       ELSE phase' = "steps" /\ originalBase' = {baseCanvas}
    /\ UNCHANGED <<baseCanvas, stepNo, call, supported, input, lastStep>>
    /\ UNCHANGED <<cacheVars, resolveVars, renderVars, otherVars>>

\* One iteration of the loop (lines 56-74).
ApplyStep ==
    /\ phase = "steps"
    /\ LET f == pipeline[stepNo + 1].filter
           snapshot == The(originalBase)
       IN  IF f.masked
           THEN /\ baseCanvas' = MaskedStep(baseCanvas, snapshot, f, call.isTall, supported).canvas
                /\ lastStep' = [kind |-> "masked", before |-> baseCanvas,
                                mask |-> MaskedStep(baseCanvas, snapshot, f, call.isTall, supported).mask]
           ELSE /\ baseCanvas' = FlatFill(baseCanvas, f)
                /\ lastStep' = [kind |-> "flat", before |-> baseCanvas, mask |-> <<>>]
    /\ stepNo' = stepNo + 1
    /\ phase' = IF stepNo + 1 = Len(pipeline) THEN "done" ELSE "steps"
    /\ UNCHANGED <<originalBase, pipeline, call, supported, input>>
    /\ UNCHANGED <<cacheVars, resolveVars, renderVars, otherVars>>

PixelNext == ApplyBegin \/ ApplyStep

PixelInit == CacheStart /\ ResolveIdle /\ PixelStart /\ RenderIdle /\ OthersIdle

SpecPixel == PixelInit /\ [][PixelNext]_vars

\* The call was given a custom tint of opacity above 0.
TintGiven == call.customTint # {} /\ The(call.customTint).opacity > 0

\* The places of call.sel whose id has a filter definition.
Filtered == {i \in DOMAIN call.sel : HasFilter(call.sel[i])}

\* C38: the pipeline holds one step per selected id with a filter, and
\* after them the Custom step if and only if a custom tint of opacity above
\* 0 was given; when no selected id has a filter and there is no Custom
\* step, no snapshot is taken and nothing is drawn on the canvas.
C38_CustomLastOrUntouched ==
    phase # "idle" =>
        LET custom == {i \in DOMAIN pipeline : pipeline[i].name = "Custom"} IN
        /\ TintGiven <=> custom # {}
        /\ custom \subseteq {Len(pipeline)}
        /\ Len(pipeline) = Cardinality(Filtered) + Cardinality(custom)
        /\ \A i \in DOMAIN pipeline \ custom :
              \E j \in Filtered : pipeline[i].name = call.sel[j]
        /\ Filtered = {} /\ ~TintGiven =>
              /\ phase = "done" /\ originalBase = {} /\ stepNo = 0
              /\ baseCanvas = input /\ lastStep = <<>>

\* A call with two filtered ids and a tint, after its last step.
C38_Witness ==
    /\ phase = "done" /\ Len(pipeline) = 3 /\ stepNo = 3
    /\ pipeline[3].name = "Custom" /\ baseCanvas # input

\* A call whose only id has no filter and whose tint has opacity 0.
UntouchedCall ==
    /\ phase = "done" /\ call.sel = <<"Zed">> /\ call.customTint # {}
    /\ pipeline = <<>> /\ baseCanvas = input

AllFlat(pipe) == \A i \in 1..Len(pipe) : ~pipe[i].filter.masked

(* C7: a flat-tint (non-masked) step leaves the alpha of every pixel exactly as
   it was before the step, for any tint colour and opacity; after applyMutations
   with flat-tint mutations only, every pixel's alpha is its pre-mutation
   alpha. *)
C7_FlatTintKeepsAlpha ==
    /\ (lastStep # <<>> /\ lastStep.kind = "flat")
          => AlphaOf(baseCanvas) = AlphaOf(lastStep.before)
    /\ (phase = "done" /\ AllFlat(pipeline))
          => AlphaOf(baseCanvas) = AlphaOf(input)

\* The ink a flat-tint step fills with, {} when its alpha is 0.
FlatInkOf(f) ==
    IF f.masked \/ GlobalAlpha(f) = 0 \/ f.colors = <<>>
       \/ ColorAlpha(f.colors[1]) = 0
    THEN {}
    ELSE {Ink(<<f.colors[1]>>, {}, FALSE)}

(* C19: after applyMutations, every pixel that was opaque in the sprite still
   carries the ink of every flat tint with alpha > 0 that a masked step
   (Rainbow, Custom) follows in the pipeline. *)
C19_MaskedStepKeepsEarlierTints ==
    phase = "done" =>
        \A i, j \in 1..Len(pipeline) :
            (i < j /\ pipeline[j].filter.masked) =>
                \A p \in Pixels :
                    input[p].a = 255 =>
                        FlatInkOf(pipeline[i].filter) \subseteq baseCanvas[p].ink

\* Two flat tints were applied to a sprite with a transparent, a half
\* transparent or an opaque pixel, and they changed its colour.
C7_Witness ==
    /\ phase = "done"
    /\ Len(pipeline) = MaxPipe
    /\ AllFlat(pipeline)
    /\ lastStep.kind = "flat"
    /\ baseCanvas # input
    /\ baseCanvas["p"].a = 0
    /\ baseCanvas["q"].a = 128

(* C8: after every masked step (Rainbow, Custom tint), wherever it stands in
   the pipeline, a pixel whose alpha was 0 in the pre-mutation sprite has alpha
   0, and the step took its mask from the snapshot made before any step ran,
   not from the accumulated canvas. *)
C8_MaskedKeepsTransparent ==
    (lastStep # <<>> /\ lastStep.kind = "masked") =>
        /\ \A p \in Pixels : input[p].a = 0 => baseCanvas[p].a = 0
        /\ lastStep.mask = input

\* A masked step ran after a flat tint had changed the accumulated canvas of a
\* sprite with a transparent and an opaque pixel.
C8_Witness ==
    /\ lastStep # <<>>
    /\ lastStep.kind = "masked"
    /\ stepNo > 1
    /\ lastStep.before # input
    /\ input["p"].a = 0
    /\ input["q"].a = 255
    /\ baseCanvas # lastStep.before

CacheInit == CacheStart /\ ResolveIdle /\ PixelIdle /\ RenderIdle /\ OthersIdle

SpecCache == CacheInit /\ [][CacheNext]_vars

\* A set() of a new key on a full cache of non-empty keys has just returned.
SetOnFullCache ==
    /\ cacheOp.op = "set"
    /\ cacheOp.fresh
    /\ cacheOp.size = MAX_ENTRIES
    /\ "" \notin cacheOp.keys

(* C3: after capacity+1 set() calls with distinct keys exactly one entry has
   been evicted, and it is the least recently used one in the order of the
   get/set operations, for every non-decreasing sequence of clock readings
   (several operations may read the same clock value). *)
C3_EvictsLeastRecentlyUsed ==
    SetOnFullCache =>
        /\ Cardinality(cacheOp.evicted) = 1
        /\ cacheOp.evicted = cacheOp.lru
        /\ Len(entries) = MAX_ENTRIES

\* The same statement for caches whose entries all carry different stamps.
LruWhenStampsDiffer ==
    (SetOnFullCache /\ ~cacheOp.ties) =>
        /\ cacheOp.evicted = cacheOp.lru
        /\ Len(entries) = MAX_ENTRIES

(* C4: after any sequence of get, set and clear operations, with any string
   keys, the cache holds at most MAX_ENTRIES entries and every key maps to at
   most one entry. *)
C4_SizeWithinCapacity ==
    /\ Len(entries) <= MAX_ENTRIES
    /\ Cardinality(KeysOf(entries)) = Len(entries)

\* The same statement for caches that never held the empty key.
SizeWithinCapacityNonEmptyKeys ==
    ("" \notin KeysOf(entries) /\ "" \notin cacheOp.keys) =>
        Len(entries) <= MAX_ENTRIES

(***************************************************************************)
(* renderSlot: the slot, the sprite data and the cache fingerprint         *)
(***************************************************************************)
\* render-cache.ts line 316; a slot's cosmeticLayers maps a category to the
\* id of the chosen item.  An absent assignment (and an absent
\* cosmeticLayers object) is the empty id, which line 319 skips.
LayerOrder == <<"Default", "Mid", "Bottom", "Top",
                "Expression", "FaceProp", "Status", "Banner">>

Categories == Range(LayerOrder)

NoLayers == [c \in Categories |-> ""]

\* The fields of a Slot that renderSlot reads.  gifFrames is {} when
\* undefined and {n} for a list of n decoded frames; customTint.opacity is
\* in percent.
CreateEmptySlot ==
    [type |-> "sprite", spriteKey |-> "", spriteUrl |-> "",
     mutations |-> <<>>,
     options |-> [icons |-> TRUE, overlays |-> TRUE],
     customTint |-> [color |-> "#ffffff", opacity |-> 0],
     scale |-> 1, rotation |-> 0,
     cosmeticLayers |-> NoLayers, gifFrames |-> {}, isAnimated |-> FALSE]

\* state.spriteData: the items of the sprite catalogue.  Gold's sprite is an
\* animation, the others are frames; Rainbow has no sprite at all.
SpriteItems ==
    {[id |-> "sprite/plant/Carrot", type |-> "frame"],
     [id |-> "sprite/tall-plant/Bamboo", type |-> "frame"],
     [id |-> "sprite/mutation/Wet", type |-> "frame"],
     [id |-> "sprite/mutation/Puddle", type |-> "frame"],
     [id |-> "sprite/mutation/Dawnlit", type |-> "frame"],
     [id |-> "sprite/mutation/Chilled", type |-> "frame"],
     [id |-> "sprite/mutation/Amberlit", type |-> "frame"],
     [id |-> "sprite/mutation/Gold", type |-> "animation"],
     [id |-> "sprite/mutation-overlay/WetTallPlant", type |-> "frame"]}

\* state.cosmeticsData as (category, item) pairs.
CosmeticItems ==
    {[cat |-> "Top", id |-> "hat", name |-> "Hat", url |-> "cosmetics/hat.png"],
     [cat |-> "Mid", id |-> "shirt", name |-> "Shirt",
      url |-> "cosmetics/shirt.png"]}

\* The sprites of the picker: the catalogue entry's id and thumbnail URL.
PickerKeys == {"sprite/plant/Carrot", "sprite/tall-plant/Bamboo"}

ThumbUrl(key) == "thumb/" \o key \o ".png"

\* The URL and frame count of an uploaded GIF.
GifUrl == "blob:gif"

GifFrameCount == 2

\* The mutation buttons are the keys of FILTERS; these are the ones the
\* render specification toggles.
RenderIds == {"Wet", "Dawnlit", "Gold"}

GetSpriteIdSet == {i.id : i \in SpriteItems}

\* The URL is built from the category and the last path segment of the id,
\* both of which the id determines.
FindSpriteUrl(spriteId) ==
    IF \E i \in SpriteItems : i.id = spriteId /\ i.type = "frame"
    THEN {"assets/" \o spriteId \o ".png"}
    ELSE {}

\* /tall-?plant/i over the sprite keys of the model.
IsTallKey(key) == key = "sprite/tall-plant/Bamboo"

\* The last path segment, over the sprite keys of the model.
BaseNameOf(key) ==
    CASE key = "sprite/plant/Carrot" -> "Carrot"
      [] key = "sprite/tall-plant/Bamboo" -> "Bamboo"
      [] OTHER -> key

MutationAliases(mut) ==
    CASE mut = "Ambershine" -> <<"Ambershine", "Amberlit">>
      [] mut = "Dawncharged" -> <<"Dawncharged", "Dawnbound">>
      [] mut = "Ambercharged" -> <<"Ambercharged", "Amberbound">>
      [] OTHER -> <<mut>>

\* MUTATION_META: the fields renderSlot reads; {} is an absent field.
MutationMeta(tallOverlayKey, tallPlantIconOverride, floatingIcon) ==
    [tallOverlayKey |-> tallOverlayKey,
     tallPlantIconOverride |-> tallPlantIconOverride,
     floatingIcon |-> floatingIcon]

MUTATION_META(id) ==
    CASE id \in {"Gold", "Rainbow"} -> {MutationMeta({}, {}, FALSE)}
      [] id = "Wet" ->
           {MutationMeta({"sprite/mutation-overlay/WetTallPlant"},
                         {"sprite/mutation/Puddle"}, FALSE)}
      [] id = "Chilled" ->
           {MutationMeta({"sprite/mutation-overlay/ChilledTallPlant"}, {}, FALSE)}
      [] id = "Frozen" ->
           {MutationMeta({"sprite/mutation-overlay/FrozenTallPlant"}, {}, FALSE)}
      [] id = "Thunderstruck" ->
           {MutationMeta({"sprite/mutation-overlay/ThunderstruckTallPlant"},
                         {"sprite/mutation/ThunderstruckGround"}, FALSE)}
      [] id \in {"Dawnlit", "Ambershine", "Dawncharged", "Ambercharged"} ->
           {MutationMeta({}, {}, TRUE)}
      [] OTHER -> {}

\* The standard patterns tried before the tall ones.
IconTriesStandardFirst(name, base, isTall) ==
    <<"sprite/mutation/" \o name \o "Icon",
      "sprite/mutation/" \o name,
      "sprite/mutation/" \o name \o base,
      "sprite/mutation/" \o name \o "-" \o base,
      "sprite/mutation/" \o name \o "_" \o base,
      "sprite/mutation/" \o name \o "/" \o base>>
    \o (IF isTall
        THEN <<"sprite/mutation-overlay/" \o name \o "TallPlantIcon",
               "sprite/mutation-overlay/" \o name \o "TallPlant">>
        ELSE <<>>)

\* The keys findIconKey tries for one alias, in the order it tries them.
IconTries(name, base, isTall) ==
    (IF isTall
     THEN <<"sprite/mutation-overlay/" \o name \o "TallPlantIcon",
            "sprite/mutation-overlay/" \o name \o "TallPlant">>
     ELSE <<>>)
    \o <<"sprite/mutation/" \o name \o "Icon",
         "sprite/mutation/" \o name,
         "sprite/mutation/" \o name \o base,
         "sprite/mutation/" \o name \o "-" \o base,
         "sprite/mutation/" \o name \o "_" \o base,
         "sprite/mutation/" \o name \o "/" \o base>>

RECURSIVE AliasTries(_, _, _)
AliasTries(aliases, base, isTall) ==
    IF aliases = <<>> THEN <<>>
    ELSE IconTries(Head(aliases), base, isTall)
         \o AliasTries(Tail(aliases), base, isTall)

\* The first of the keys that knownIds has, {} when it has none.
RECURSIVE FirstIn(_, _)
FirstIn(keys, knownIds) ==
    IF keys = <<>> THEN {}
    ELSE IF Head(keys) \in knownIds THEN {Head(keys)}
    ELSE FirstIn(Tail(keys), knownIds)

FirstKnown(keys) == FirstIn(keys, GetSpriteIdSet)

\* findIconKey with knownIds being what getSpriteIdSet() returns; the icon
\* sprite id of a mutation, {} for null.
FindIconKeyIn(knownIds, itemKey, mutName, isTall, meta) ==
    IF mutName = "" THEN {}
    ELSE FirstIn((IF isTall THEN OptSeq(meta.tallPlantIconOverride) ELSE <<>>)
                 \o AliasTries(MutationAliases(mutName), BaseNameOf(itemKey),
                               isTall),
                 knownIds)

FindIconKey(itemKey, mutName, isTall, meta) ==
    FindIconKeyIn(GetSpriteIdSet, itemKey, mutName, isTall, meta)

BoolStr(b) == IF b THEN "true" ELSE "false"

\* `${opacity}` of the tint, which the slot holds as a fraction.
OpacityStr(percent) ==
    CASE percent = 0 -> "0"
      [] percent = 50 -> "0.5"
      [] percent = 100 -> "1"

\* Array.prototype.sort without a comparator orders the ids as strings; the
\* rank of an id among the ids of the models.
LexRank(id) ==
    CASE id = "Ambercharged" -> 1 [] id = "Ambershine" -> 2
      [] id = "Chilled" -> 3 [] id = "Dawncharged" -> 4
      [] id = "Dawnlit" -> 5 [] id = "Frozen" -> 6
      [] id = "Gold" -> 7 [] id = "Rainbow" -> 8
      [] id = "Thunderstruck" -> 9 [] id = "Wet" -> 10
      [] id = "Yak" -> 11 [] id = "Zed" -> 12

InsertLex(s, x) ==
    LET before == {i \in 1..Len(s) : LexRank(s[i]) <= LexRank(x)}
        k == IF before = {} THEN 0 ELSE CHOOSE i \in before : \A j \in before : j <= i
    IN SubSeq(s, 1, k) \o <<x>> \o SubSeq(s, k + 1, Len(s))

RECURSIVE SortLex(_)
SortLex(s) ==
    IF s = <<>> THEN <<>>
    ELSE InsertLex(SortLex(SubSeq(s, 1, Len(s) - 1)), s[Len(s)])

RECURSIVE Join(_)
Join(s) ==
    IF s = <<>> THEN ""
    ELSE IF Len(s) = 1 THEN s[1]
    ELSE s[1] \o "," \o Join(Tail(s))

\* A fingerprint that joins the ids in the order the slot lists them.
MakeKeyUnsorted(spriteUrl, mutations, options, scale, rotation, frameIndex) ==
    spriteUrl \o "|" \o Join(mutations)
    \o "|" \o BoolStr(options.icons) \o "|" \o BoolStr(options.overlays)
    \o "|" \o ToString(scale) \o "|" \o ToString(rotation)
    \o "|" \o ToString(IF frameIndex = {} THEN 0 ELSE The(frameIndex))

\* RenderCache.makeKey; frameIndex is {} when the argument is not passed.
MakeKey(spriteUrl, mutations, options, scale, rotation, frameIndex) ==
    spriteUrl \o "|" \o Join(SortLex(mutations))
    \o "|" \o BoolStr(options.icons) \o "|" \o BoolStr(options.overlays)
    \o "|" \o ToString(scale) \o "|" \o ToString(rotation)
    \o "|" \o ToString(IF frameIndex = {} THEN 0 ELSE The(frameIndex))

\* Line 92; gifFrameIndex is {} when the argument is not passed.
FrameIdx(s, gifFrameIndex) ==
    IF s.isAnimated /\ s.gifFrames # {}
    THEN (IF gifFrameIndex = {} THEN 0 ELSE The(gifFrameIndex))
    ELSE -1

\* Lines 94-100
CacheKey(s, gifFrameIndex) ==
    MakeKey(s.spriteUrl, s.mutations, s.options, s.scale, s.rotation, {})
    \o "|" \o s.customTint.color \o ":" \o OpacityStr(s.customTint.opacity)
    \o "|f" \o ToString(FrameIdx(s, gifFrameIndex))

(***************************************************************************)
(* renderSlot: what it draws                                               *)
(***************************************************************************)
\* Lines 106-116: the pixels the canvas starts from, the frame of an
\* animated slot (clamped) or the image loaded from the sprite URL.
IsAnimated(s) == s.isAnimated /\ s.gifFrames # {} /\ The(s.gifFrames) > 0

ClampFrame(fi, n) ==
    IF fi < 0 THEN 0 ELSE IF fi > n - 1 THEN n - 1 ELSE fi

SourceAt(s, frameIdx) ==
    IF IsAnimated(s)
    THEN [url |-> s.spriteUrl, frame |-> ClampFrame(frameIdx, The(s.gifFrames))]
    ELSE [url |-> s.spriteUrl, frame |-> -1]

SourceOf(s, gifFrameIndex) == SourceAt(s, FrameIdx(s, gifFrameIndex))

\* Lines 119-122: the canvas after applyMutations, as the source and the
\* steps applyMutations runs on it.
MutatedBase(src, s) ==
    [src |-> src,
     steps |-> BuildPipeline(s.mutations, {s.customTint}),
     tall |-> IsTallKey(s.spriteKey)]

\* Lines 149-179: the draw op of a mutation's icon, {} when the mutation has
\* no icon to load.  anchorKey is the sprite key line 129 read, spriteKey
\* the one the iteration reads.
IconOf(mutId, spriteKey, tall, anchorKey) ==
    LET meta == MUTATION_META(mutId) IN
    IF meta = {} THEN {}
    ELSE IF /\ tall
            /\ The(meta).tallOverlayKey # {}
            /\ The(meta).tallPlantIconOverride = {} THEN {}
    ELSE LET iconId == FindIconKey(spriteKey, mutId, tall, The(meta)) IN
         IF iconId = {} THEN {}
         ELSE IF FindSpriteUrl(The(iconId)) = {} THEN {}
         ELSE {[what |-> "icon", id |-> The(iconId),
                url |-> The(FindSpriteUrl(The(iconId))),
                z |-> IF The(meta).floatingIcon THEN 10
                      ELSE IF tall THEN -1 ELSE 2,
                anchor |-> anchorKey, layout |-> spriteKey]}

\* Lines 197-262: the draw op of a mutation's tall-plant overlay; the
\* overlay is top-anchored when the mutation's filter has a tint.
OverlayOf(mutId, anchorKey) ==
    LET meta == MUTATION_META(mutId) IN
    IF meta = {} THEN {}
    ELSE IF The(meta).tallOverlayKey = {} THEN {}
    ELSE IF FindSpriteUrl(The(The(meta).tallOverlayKey)) = {} THEN {}
    ELSE {[what |-> "overlay", id |-> The(The(meta).tallOverlayKey),
           url |-> The(FindSpriteUrl(The(The(meta).tallOverlayKey))),
           z |-> 3, anchor |-> anchorKey,
           layout |-> IF HasFilter(mutId) /\ GlobalAlpha(FILTERS(mutId)) > 0
                      THEN "top" ELSE "bottom"]}

\* Lines 318-327: the layer of a category, {} when there is none to load.
CosmeticOf(category, cosmeticId) ==
    IF cosmeticId = "" THEN {}
    ELSE {[what |-> "cosmetic", id |-> i.id, url |-> i.url, z |-> 0,
           anchor |-> "", layout |-> category] :
          i \in {j \in CosmeticItems :
                   j.cat = category /\ j.id = cosmeticId /\ j.url # ""}}

\* Line 294: [...ops].sort((a, b) => a.z - b.z), a stable sort.
InsertByZ(s, x) ==
    LET before == {i \in 1..Len(s) : s[i].z <= x.z}
        k == IF before = {} THEN 0
             ELSE CHOOSE i \in before : \A j \in before : j <= i
    IN SubSeq(s, 1, k) \o <<x>> \o SubSeq(s, k + 1, Len(s))

\* Sorting that leaves the ops as they were collected.
Unsorted(s) == s

RECURSIVE SortByZ(_)
SortByZ(s) ==
    IF s = <<>> THEN <<>>
    ELSE InsertByZ(SortByZ(SubSeq(s, 1, Len(s) - 1)), s[Len(s)])

BaseLayer == [what |-> "base", id |-> "", url |-> "", z |-> 0,
              anchor |-> "", layout |-> ""]

\* Lines 266-310: what is drawn, bottom to top; the base alone when there
\* are no ops.
Layers(drawOps) ==
    SelectSeq(SortByZ(drawOps), LAMBDA op : op.z < 0)
    \o <<BaseLayer>>
    \o SelectSeq(SortByZ(drawOps), LAMBDA op : op.z >= 0)

\* What a finished canvas shows.
Surface(base, drawOps, cosmetics) ==
    [base |-> base, layers |-> Layers(drawOps), cosmetics |-> cosmetics]

(***************************************************************************)
(* renderSlot: the call, from one await to the next                        *)
(***************************************************************************)
\* The locals of a renderSlot call.  pc is the await the call is suspended
\* at; cur is the element being loaded; obj is {} while the call's slot
\* object is still the one in state.slots, and the object itself once
\* clearSlot has replaced it there.
NoCall ==
    [pc |-> "idle", frameIdx |-> -1, key |-> "", obj |-> {},
     base |-> <<>>, tall |-> FALSE, anchor |-> "",
     drawOps |-> <<>>, todo |-> <<>>, ci |-> 0, cosmetics |-> <<>>,
     cur |-> BaseLayer,
     \* ghost
     snap |-> <<>>, raced |-> FALSE, loads |-> 0, work |-> 0,
     failed |-> {}, keys |-> {}]

\* The slot object the call reads.
SlotOf(r) == IF r.obj = {} THEN slot ELSE The(r.obj)

Done(r) == [r EXCEPT !.pc = "done"]

Await(r, where, op) ==
    [r EXCEPT !.pc = where, !.cur = op, !.loads = @ + 1]

RECURSIVE NextLayer(_, _)
NextLayer(i, s) ==
    IF i > Len(LayerOrder) THEN i
    ELSE IF CosmeticOf(LayerOrder[i], s.cosmeticLayers[LayerOrder[i]]) # {} THEN i
    ELSE NextLayer(i + 1, s)

\* Lines 317-334, from category number i on, up to the next load.
CosmeticsFrom(r, i, s) ==
    LET k == NextLayer(i, s) IN
    IF k > Len(LayerOrder) THEN Done(r)
    ELSE Await([r EXCEPT !.ci = k], "cosmetic",
               The(CosmeticOf(LayerOrder[k], s.cosmeticLayers[LayerOrder[k]])))

\* Line 313
CosmeticsEnter(r, s) ==
    IF s.type = "cosmetic" THEN CosmeticsFrom(r, 1, s) ELSE Done(r)

\* Lines 266-310: the ops are composited when there are any.
Compose(r, s) ==
    CosmeticsEnter([r EXCEPT !.work = @ + (IF r.drawOps # <<>> THEN 1 ELSE 0)], s)

RECURSIVE SkipOverlays(_, _)
SkipOverlays(muts, anchorKey) ==
    IF muts = <<>> THEN <<>>
    ELSE IF OverlayOf(Head(muts), anchorKey) # {} THEN muts
    ELSE SkipOverlays(Tail(muts), anchorKey)

\* Lines 196-262, over the mutations still to visit, up to the next load.
OverlaysFrom(r, muts, s) ==
    LET rest == SkipOverlays(muts, r.anchor) IN
    IF rest = <<>> THEN Compose(r, s)
    ELSE Await([r EXCEPT !.todo = Tail(rest)], "overlay",
               The(OverlayOf(Head(rest), r.anchor)))

\* Line 190
OverlaysEnter(r, s) ==
    IF r.tall /\ s.options.overlays
    THEN OverlaysFrom(r, ResolveActiveMutations(s.mutations), s)
    ELSE Compose(r, s)

RECURSIVE SkipIcons(_, _, _, _)
SkipIcons(muts, spriteKey, tall, anchorKey) ==
    IF muts = <<>> THEN <<>>
    ELSE IF IconOf(Head(muts), spriteKey, tall, anchorKey) # {} THEN muts
    ELSE SkipIcons(Tail(muts), spriteKey, tall, anchorKey)

\* Lines 149-181, over the mutations still to visit, up to the next load.
IconsFrom(r, muts, s) ==
    LET rest == SkipIcons(muts, s.spriteKey, r.tall, r.anchor) IN
    IF rest = <<>> THEN OverlaysEnter(r, s)
    ELSE Await([r EXCEPT !.todo = Tail(rest)], "icon",
               The(IconOf(Head(rest), s.spriteKey, r.tall, r.anchor)))

\* Lines 118-148: applyMutations on the canvas, then into the icon loop.
AfterBase(r, src, s) ==
    LET r1 == [r EXCEPT !.base = MutatedBase(src, s),
                        !.tall = IsTallKey(s.spriteKey),
                        !.anchor = s.spriteKey,
                        !.work = @ + Len(BuildPipeline(s.mutations, {s.customTint}))]
    IN IF s.options.icons \/ (r1.tall /\ s.options.overlays)
       THEN (IF s.options.icons
             THEN IconsFrom(r1, ResolveActiveMutations(s.mutations), s)
             ELSE OverlaysEnter(r1, s))
       ELSE CosmeticsEnter(r1, s)

\* An icon load whose failure ends the icon loop.
IconSettledBreaks(r, ok) ==
    IF ok THEN [r EXCEPT !.drawOps = Append(@, r.cur)]
    ELSE [r EXCEPT !.failed = @ \cup {r.cur}, !.todo = <<>>]

\* Lines 167-180: the try/catch around an icon load.
IconSettled(r, ok) ==
    IF ok THEN [r EXCEPT !.drawOps = Append(@, r.cur)]
    ELSE [r EXCEPT !.failed = @ \cup {r.cur}]

\* Lines 206-261: the try/catch around an overlay load.
OverlaySettled(r, ok) ==
    IF ok THEN [r EXCEPT !.drawOps = Append(@, r.cur)]
    ELSE [r EXCEPT !.failed = @ \cup {r.cur}]

\* Lines 329-334: the try/catch around a cosmetic layer load.
CosmeticSettled(r, ok) ==
    IF ok THEN [r EXCEPT !.cosmetics = Append(@, r.cur)]
    ELSE [r EXCEPT !.failed = @ \cup {r.cur}]

\* Ghost: how a call settled.  canvas is 0 when it returned no canvas.
Outcome(kind, r, canvas, hit, es) ==
    [kind |-> kind, canvas |-> canvas, hit |-> hit, key |-> r.key,
     frameIdx |-> r.frameIdx, snap |-> r.snap, raced |-> r.raced,
     loads |-> r.loads, work |-> r.work, failed |-> r.failed,
     keysBefore |-> r.keys, keysAfter |-> KeysOf(es)]

\* A failed source load that makes the call return null.
ResolvedNull(r, es) == Outcome("null", r, 0, FALSE, es)

\* Line 114: the await throws, and so does renderSlot.
Rejected(r, es) == Outcome("rejected", r, 0, FALSE, es)

\* The cache's own bookkeeping for a get() and for a set(), the latter
\* after n - 1 other operations of the same step.
GetUpdate(key) ==
    /\ entries' = CacheTouch(entries, key, now)
    /\ recency' = IF MapHas(entries, key) THEN Touched(recency, key) ELSE recency
    /\ cacheOp' = NoCacheOp("get", entries)
    /\ ops' = ops + 1
    /\ UNCHANGED <<now, freed>>

SetUpdate(key, canvas, n) ==
    /\ entries' = CacheSet(entries, key, canvas, now)
    /\ freed' = freed \cup SetFrees(entries)
    /\ recency' = RecencyAfterSet(recency, entries, key)
    /\ cacheOp' = [op |-> "set", size |-> Len(entries), keys |-> KeysOf(entries),
                   fresh |-> ~MapHas(entries, key), ties |-> HasTies(entries),
                   evicted |-> SetEvicts(entries),
                   lru |-> IF recency = <<>> THEN {} ELSE {Head(recency)}]
    /\ ops' = ops + n
    /\ UNCHANGED now

\* Ghost: what the canvas of a call shows and what the call drew it from.
Finished(r) ==
    [shows |-> Surface(r.base, r.drawOps, r.cosmetics),
     snap |-> r.snap, frameIdx |-> r.frameIdx, raced |-> r.raced,
     failed |-> r.failed]

\* The canvas a call creates is named by the call's number.
NewCanvas == Len(calls) + 1

\* The call runs on from r: it either suspends at the next load, or reaches
\* lines 337-338, stores its canvas and returns it.  n counts the cache
\* operations of the step.
RunOn(r, n) ==
    IF r.pc = "done"
    THEN /\ SetUpdate(r.key, NewCanvas, n)
         /\ made' = made @@ (NewCanvas :> Finished(r))
         /\ calls' = Append(calls, Outcome("surface", r, NewCanvas, FALSE,
                                           CacheSet(entries, r.key, NewCanvas, now)))
         /\ rs' = NoCall
    ELSE /\ rs' = r
         /\ IF n = 2 THEN GetUpdate(r.key) ELSE UNCHANGED cacheVars
         /\ UNCHANGED <<made, calls>>

(***************************************************************************)
(* renderSlot: the steps of a call, and the edits of the slot              *)
(***************************************************************************)
\* Lines 88-116: from the call to the first await, or to the return when
\* there is none on the way.
RenderSlot(gifFrameIndex) ==
    /\ rs.pc = "idle"
    /\ Len(calls) < MaxRenders
    /\ LET r == [NoCall EXCEPT !.frameIdx = FrameIdx(slot, gifFrameIndex),
                               !.key = CacheKey(slot, gifFrameIndex),
                               !.snap = slot, !.keys = KeysOf(entries)]
       IN IF slot.spriteUrl = ""
          THEN /\ calls' = Append(calls, Outcome("null", [r EXCEPT !.key = ""],
                                                 0, FALSE, entries))
               /\ UNCHANGED <<cacheVars, rs, made>>
          ELSE IF CacheGet(entries, r.key) # {}
          THEN /\ GetUpdate(r.key)
               /\ calls' = Append(calls, Outcome("surface", r,
                                                 The(CacheGet(entries, r.key)),
                                                 TRUE, entries))
               /\ UNCHANGED <<rs, made>>
          ELSE IF IsAnimated(slot)
          THEN RunOn(AfterBase(r, SourceOf(slot, gifFrameIndex), slot), 2)
          ELSE RunOn(Await(r, "base", [BaseLayer EXCEPT !.url = slot.spriteUrl]), 2)
    /\ UNCHANGED <<slot, edits>>
    /\ UNCHANGED <<resolveVars, pixelVars, otherVars>>

\* Line 114: the load of the source sprite settles.
BaseLoaded(ok) ==
    /\ rs.pc = "base"
    /\ IF ok
       THEN RunOn(AfterBase(rs, [url |-> rs.cur.url, frame |-> -1], SlotOf(rs)), 1)
       ELSE /\ calls' = Append(calls, Rejected(rs, entries))
            /\ rs' = NoCall
            /\ UNCHANGED <<cacheVars, made>>
    /\ UNCHANGED <<slot, edits>>
    /\ UNCHANGED <<resolveVars, pixelVars, otherVars>>

\* Line 168: the load of an icon settles.
IconLoaded(ok) ==
    /\ rs.pc = "icon"
    /\ RunOn(IconsFrom(IconSettled(rs, ok), IconSettled(rs, ok).todo, SlotOf(rs)), 1)
    /\ UNCHANGED <<slot, edits>>
    /\ UNCHANGED <<resolveVars, pixelVars, otherVars>>

\* Line 207: the load of an overlay settles.
OverlayLoaded(ok) ==
    /\ rs.pc = "overlay"
    /\ RunOn(OverlaysFrom(OverlaySettled(rs, ok), OverlaySettled(rs, ok).todo,
                           SlotOf(rs)), 1)
    /\ UNCHANGED <<slot, edits>>
    /\ UNCHANGED <<resolveVars, pixelVars, otherVars>>

\* Line 330: the load of a cosmetic layer settles.
CosmeticLoaded(ok) ==
    /\ rs.pc = "cosmetic"
    /\ RunOn(CosmeticsFrom(CosmeticSettled(rs, ok), rs.ci + 1, SlotOf(rs)), 1)
    /\ UNCHANGED <<slot, edits>>
    /\ UNCHANGED <<resolveVars, pixelVars, otherVars>>

\* updateSlot and updateSlotSilent: Object.assign on the slot object, which
\* a call in flight reads from unless its object has been replaced.
UpdateSlot(changed) ==
    /\ edits < MaxEdits
    /\ edits' = edits + 1
    /\ slot' = changed
    /\ rs' = IF rs.pc # "idle" /\ rs.obj = {} /\ changed # slot
             THEN [rs EXCEPT !.raced = TRUE] ELSE rs
    /\ UNCHANGED <<made, calls>>
    /\ UNCHANGED <<cacheVars, resolveVars, pixelVars, otherVars>>

\* The sprite picker.
SelectSprite(key) ==
    UpdateSlot([slot EXCEPT !.type = "sprite", !.spriteKey = key,
                            !.spriteUrl = ThumbUrl(key),
                            !.gifFrames = {}, !.isAnimated = FALSE])

\* A click in the cosmetics grid, which shows the items of one category.
SelectCosmetic(item) ==
    UpdateSlot([slot EXCEPT !.type = "cosmetic", !.spriteKey = item.name,
                            !.spriteUrl = item.url,
                            !.cosmeticLayers[item.cat] = item.id])

\* indexOf, then splice or push.
Toggled(muts, id) ==
    IF id \in Range(muts)
    THEN RemoveAt(muts, CHOOSE i \in 1..Len(muts) :
                          muts[i] = id /\ \A j \in 1..(i - 1) : muts[j] # id)
    ELSE Append(muts, id)

\* A mutation button.
ToggleMutation(id) ==
    UpdateSlot([slot EXCEPT !.mutations = Toggled(@, id)])

\* The Icons and Tall overlays checkboxes.
ToggleIcons ==
    UpdateSlot([slot EXCEPT !.options = [icons |-> ~@.icons, overlays |-> @.overlays]])

ToggleOverlays ==
    UpdateSlot([slot EXCEPT !.options = [icons |-> @.icons, overlays |-> ~@.overlays]])

\* The tint colour and opacity inputs.
RenderTints == {[color |-> "#ffffff", opacity |-> 0],
                [color |-> "#ff0000", opacity |-> 50]}

SetTint(tint) == UpdateSlot([slot EXCEPT !.customTint = tint])

\* The scale and rotation sliders.
SetScale(v) == UpdateSlot([slot EXCEPT !.scale = v])

SetRotation(v) == UpdateSlot([slot EXCEPT !.rotation = v])

\* The file input, for a GIF.
UploadGif ==
    UpdateSlot([slot EXCEPT !.type = "custom", !.spriteKey = "upload",
                            !.spriteUrl = GifUrl,
                            !.gifFrames = {GifFrameCount}, !.isAnimated = TRUE])

\* clearSlot puts a new object into state.slots; a call in flight keeps the
\* object it was handed.
ClearSlot ==
    /\ edits < MaxEdits
    /\ edits' = edits + 1
    /\ slot' = CreateEmptySlot
    /\ rs' = IF rs.pc # "idle" /\ rs.obj = {} THEN [rs EXCEPT !.obj = {slot}] ELSE rs
    /\ UNCHANGED <<made, calls>>
    /\ UNCHANGED <<cacheVars, resolveVars, pixelVars, otherVars>>

\* render-cache.ts line 351: the frame argument renderAll passes, for a slot
\* whose _gifFrameIdx is gifFrameIdx ({} when unset).
RenderAllArg(s, gifFrameIdx) ==
    IF s.isAnimated /\ s.gifFrames # {}
    THEN {IF gifFrameIdx = {} THEN 0 ELSE The(gifFrameIdx)}
    ELSE {}

\* part_006 lines 870-872
HitTestKey(s, gifFrameIdx) ==
    MakeKey(s.spriteUrl, s.mutations, s.options, s.scale, s.rotation, {})
    \o "|" \o s.customTint.color \o ":" \o OpacityStr(s.customTint.opacity)
    \o "|f" \o ToString(IF s.isAnimated /\ s.gifFrames # {}
                        THEN (IF gifFrameIdx = {} THEN 0 ELSE The(gifFrameIdx))
                        ELSE 0)

\* part_006 lines 855-873: a mouse press over the slot, up to the cache
\* lookup; the slot's _gifFrameIdx is gifFrameIdx.
HitTest(gifFrameIdx) ==
    /\ probe = <<>>
    /\ slot.spriteUrl # ""
    /\ probe' = [slot |-> slot, gifFrameIdx |-> gifFrameIdx,
                 key |-> HitTestKey(slot, gifFrameIdx),
                 found |-> CacheGet(entries, HitTestKey(slot, gifFrameIdx)) # {},
                 keys |-> KeysOf(entries)]
    /\ GetUpdate(HitTestKey(slot, gifFrameIdx))
    /\ UNCHANGED renderVars
    /\ UNCHANGED outsideHit

\* The values of the sliders and of the frame argument that the render
\* specification draws from.
Scales == {1, 2}

Rotations == {0, 90}

FrameArgs == {{}, {1}}

\* Slots the handlers above lead to from an empty slot.
WithMutations(s, muts) == [s EXCEPT !.mutations = muts]

Picked(key) ==
    [CreateEmptySlot EXCEPT !.spriteKey = key, !.spriteUrl = ThumbUrl(key)]

Dressed(s, item) ==
    [s EXCEPT !.type = "cosmetic", !.spriteKey = item.name,
              !.spriteUrl = item.url, !.cosmeticLayers[item.cat] = item.id]

Hat == CHOOSE i \in CosmeticItems : i.id = "hat"

StartSlots ==
    {CreateEmptySlot,
     WithMutations(Picked("sprite/plant/Carrot"), <<"Wet", "Dawnlit">>),
     WithMutations(Picked("sprite/tall-plant/Bamboo"), <<"Dawnlit", "Wet">>),
     Dressed(CreateEmptySlot, Hat)}

RenderStart ==
    /\ slot \in StartSlots
    /\ rs = NoCall
    /\ made = <<>>
    /\ calls = <<>>
    /\ edits = 0

\* Ghost: the loads that have failed so far.
RECURSIVE FailuresIn(_)
FailuresIn(cs) ==
    IF cs = <<>> THEN 0
    ELSE (IF Head(cs).kind = "rejected" THEN 1 ELSE 0)
         + Cardinality(Head(cs).failed) + FailuresIn(Tail(cs))

\* spriteLoader.load resolves or rejects.
LoadResults ==
    IF FailuresIn(calls) + Cardinality(rs.failed) < MaxFailures
    THEN BOOLEAN ELSE {TRUE}

RenderNext ==
    \/ \E g \in FrameArgs : RenderSlot(g)
    \/ \E ok \in LoadResults : BaseLoaded(ok)
    \/ \E ok \in LoadResults : IconLoaded(ok)
    \/ \E ok \in LoadResults : OverlayLoaded(ok)
    \/ \E ok \in LoadResults : CosmeticLoaded(ok)
    \/ \E key \in PickerKeys : SelectSprite(key)
    \/ \E item \in CosmeticItems : SelectCosmetic(item)
    \/ \E id \in RenderIds : ToggleMutation(id)
    \/ ToggleIcons
    \/ ToggleOverlays
    \/ \E tint \in RenderTints : SetTint(tint)
    \/ \E v \in Scales : SetScale(v)
    \/ \E v \in Rotations : SetRotation(v)
    \/ UploadGif
    \/ ClearSlot

RenderInit == CacheStart /\ ResolveIdle /\ PixelIdle /\ RenderStart /\ OthersIdle

SpecRender == RenderInit /\ [][RenderNext]_vars

\* The renders of a slot, the upload of a GIF, the icons toggle and a mouse
\* press.
HitNext ==
    \/ \E g \in FrameArgs : RenderSlot(g)
    \/ \E ok \in LoadResults : BaseLoaded(ok)
    \/ \E ok \in LoadResults : IconLoaded(ok)
    \/ \E ok \in LoadResults : OverlayLoaded(ok)
    \/ \E ok \in LoadResults : CosmeticLoaded(ok)
    \/ ToggleIcons
    \/ UploadGif
    \/ \E g \in FrameArgs : HitTest(g)

SpecHit == RenderInit /\ [][HitNext]_vars

(***************************************************************************)
(* renderSlot: what a call on a slot draws when no load fails and the slot *)
(* is not edited meanwhile, and with the loads in `failed` failing.        *)
(***************************************************************************)
RECURSIVE IconOps(_, _, _)
IconOps(muts, spriteKey, tall) ==
    IF muts = <<>> THEN <<>>
    ELSE OptSeq(IconOf(Head(muts), spriteKey, tall, spriteKey))
         \o IconOps(Tail(muts), spriteKey, tall)

RECURSIVE OverlayOps(_, _)
OverlayOps(muts, spriteKey) ==
    IF muts = <<>> THEN <<>>
    ELSE OptSeq(OverlayOf(Head(muts), spriteKey)) \o OverlayOps(Tail(muts), spriteKey)

WantedOps(s) ==
    (IF s.options.icons
     THEN IconOps(ResolveActiveMutations(s.mutations), s.spriteKey,
                  IsTallKey(s.spriteKey))
     ELSE <<>>)
    \o (IF IsTallKey(s.spriteKey) /\ s.options.overlays
        THEN OverlayOps(ResolveActiveMutations(s.mutations), s.spriteKey)
        ELSE <<>>)

RECURSIVE CosmeticOps(_, _)
CosmeticOps(i, s) ==
    IF i > Len(LayerOrder) THEN <<>>
    ELSE OptSeq(CosmeticOf(LayerOrder[i], s.cosmeticLayers[LayerOrder[i]]))
         \o CosmeticOps(i + 1, s)

WantedCosmetics(s) ==
    IF s.type = "cosmetic" THEN CosmeticOps(1, s) ELSE <<>>

Expected(s, frameIdx, failed) ==
    Surface(MutatedBase(SourceAt(s, frameIdx), s),
            SelectSeq(WantedOps(s), LAMBDA op : op \notin failed),
            SelectSeq(WantedCosmetics(s), LAMBDA op : op \notin failed))

\* The second of two calls is made with the inputs of the first, the
\* mutation ids possibly in another order.
SameInputs(a, b) ==
    /\ a.frameIdx = b.frameIdx
    /\ [a.snap EXCEPT !.mutations = <<>>] = [b.snap EXCEPT !.mutations = <<>>]
    /\ IsPermutationOf(a.snap.mutations, b.snap.mutations)

\* C1: when renderSlot has returned a surface and is called again with the
\* same inputs, the mutation ids in any order, the second call computes the
\* same fingerprint and returns the canvas the first call returned, without
\* a sprite load, a mutation step or a compositing step.
C1_SecondCallReturnsCachedSurface ==
    \A i \in 1..(Len(calls) - 1) :
        (calls[i].kind = "surface" /\ SameInputs(calls[i], calls[i + 1]))
        => /\ calls[i + 1].kind = "surface"
           /\ calls[i + 1].key = calls[i].key
           /\ calls[i + 1].hit
           /\ calls[i + 1].canvas = calls[i].canvas
           /\ calls[i + 1].loads = 0
           /\ calls[i + 1].work = 0

\* The first call rendered the surface, the slot's mutations were then
\* listed in another order, and the second call was served from the cache.
C1_Witness ==
    \E i \in 1..(Len(calls) - 1) :
        /\ calls[i].kind = "surface" /\ ~calls[i].hit
        /\ calls[i].loads > 0 /\ calls[i].work > 0
        /\ SameInputs(calls[i], calls[i + 1])
        /\ calls[i].snap.mutations # calls[i + 1].snap.mutations
        /\ calls[i + 1].hit

\* C2: a call served from the cache returns a surface that shows what its
\* own slot would draw: the fingerprint tells apart any two slots that draw
\* differently.  (Surfaces of calls whose slot was edited while they ran
\* are left aside.)
C2_HitShowsRequestedInputs ==
    \A i \in 1..Len(calls) :
        (calls[i].kind = "surface" /\ calls[i].hit
         /\ ~made[calls[i].canvas].raced)
        => Expected(calls[i].snap, calls[i].frameIdx, {})
           = Expected(made[calls[i].canvas].snap,
                      made[calls[i].canvas].frameIdx, {})

\* The decorations of a slot in the order renderSlot visits them.
Decorations(s) == WantedOps(s) \o WantedCosmetics(s)

\* C9: a call whose icon, overlay or cosmetic layer loads fail still returns
\* a surface; it shows the mutated base sprite and every decoration of the
\* slot except the failed ones.  (Calls whose slot was edited while they ran
\* are left aside.)
C9_DecorationFailuresSkipped ==
    \A i \in 1..Len(calls) :
        /\ calls[i].failed # {} => calls[i].kind = "surface"
        /\ (calls[i].kind = "surface" /\ ~calls[i].hit /\ ~calls[i].raced)
           => made[calls[i].canvas].shows
              = Expected(calls[i].snap, calls[i].frameIdx, calls[i].failed)

\* C17: the surface a call stores in the cache (every load succeeding) is
\* the rendering of the slot as it was when the call computed the entry's
\* fingerprint, whether or not the slot was edited while the call was
\* suspended.
C17_EntryRenderedFromKeyedInputs ==
    \A i \in 1..Len(calls) :
        (calls[i].kind = "surface" /\ ~calls[i].hit /\ calls[i].failed = {})
        => /\ calls[i].key \in calls[i].keysAfter
           /\ made[calls[i].canvas].shows
              = Expected(calls[i].snap, calls[i].frameIdx, {})

\* A call made as renderAll makes it for the slot of the hit-test, whose
\* surface is in the cache when the hit-test looks it up.
RenderedForProbe(c) ==
    /\ c.kind = "surface"
    /\ c.snap = probe.slot
    /\ c.frameIdx = FrameIdx(probe.slot, RenderAllArg(probe.slot, probe.gifFrameIdx))
    /\ c.key \in probe.keys

\* C20: the hit-test of a slot computes the fingerprint under which
\* renderAll's renderSlot call cached the slot's surface, static or
\* animated, and so finds the surface in the cache.
C20_HitTestFindsRenderedSurface ==
    probe # <<>> =>
        \A i \in 1..Len(calls) :
            RenderedForProbe(calls[i]) => probe.key = calls[i].key /\ probe.found

\* The hit-test of an animated slot finds the surface renderAll cached.
AnimatedHitTestFindsSurface ==
    (probe # <<>> /\ probe.slot.isAnimated /\ probe.slot.gifFrames # {}) =>
        \A i \in 1..Len(calls) :
            RenderedForProbe(calls[i]) => probe.key = calls[i].key /\ probe.found

\* A hit-test of an animated slot after its render.
AnimatedHitTestSeen ==
    /\ probe # <<>> /\ probe.slot.isAnimated /\ probe.found
    /\ \E i \in 1..Len(calls) : RenderedForProbe(calls[i])

\* A call in which a decoration failed to load and a later one was drawn.
C9_Witness ==
    \E i \in 1..Len(calls) :
        /\ calls[i].kind = "surface" /\ ~calls[i].hit /\ ~calls[i].raced
        /\ \E j, k \in 1..Len(Decorations(calls[i].snap)) :
              /\ j < k
              /\ Decorations(calls[i].snap)[j] \in calls[i].failed
              /\ Decorations(calls[i].snap)[k] \notin calls[i].failed
              /\ \/ \E n \in 1..Len(made[calls[i].canvas].shows.layers) :
                       made[calls[i].canvas].shows.layers[n]
                       = Decorations(calls[i].snap)[k]
                 \/ \E n \in 1..Len(made[calls[i].canvas].shows.cosmetics) :
                       made[calls[i].canvas].shows.cosmetics[n]
                       = Decorations(calls[i].snap)[k]

\* C10: a call returns null exactly when its slot has no sprite URL; a call
\* rejects only on a slot with a sprite URL, and then the cache holds the
\* keys it held when the call was made and none for the call's fingerprint.
C10_NullIffNoSourceUrl ==
    \A i \in 1..Len(calls) :
        /\ calls[i].kind = "null" <=> calls[i].snap.spriteUrl = ""
        /\ calls[i].kind = "rejected"
           => /\ calls[i].snap.spriteUrl # ""
              /\ calls[i].keysAfter = calls[i].keysBefore
              /\ calls[i].key \notin calls[i].keysAfter

\* One call was rejected because its source sprite failed to load, another
\* returned null.
C10_Witness ==
    /\ \E i \in 1..Len(calls) :
          calls[i].kind = "rejected" /\ calls[i].loads = 1
    /\ \E i \in 1..Len(calls) : calls[i].kind = "null"

(***************************************************************************)
(* renderAll on the preview canvas, and the editor events that start it    *)
(***************************************************************************)
\* What renderAll reads of a slot before it hands it to renderSlot.
SlotStates == [visible : BOOLEAN, spriteUrl : {"", "u"}]

\* Slots that are drawn whether visible or not.
SkippedWhenEmpty(s) == s.spriteUrl = ""

\* render-cache.ts line 350
Skipped(s) == ~s.visible \/ s.spriteUrl = ""

\* The first slot from i on that the loop does not skip, 0 when none.
RECURSIVE NextDrawn(_, _)
NextDrawn(i, ss) ==
    IF i > Len(ss) THEN 0
    ELSE IF ~Skipped(ss[i]) THEN i
    ELSE NextDrawn(i + 1, ss)

\* Lines 349-353: the loop from slot i on, up to the next
\* `await renderSlot(...)` or to the end of renderAll.
RunFrom(run, i, ss) ==
    IF NextDrawn(i, ss) = 0
    THEN [run EXCEPT !.pc = "done", !.at = 0]
    ELSE [run EXCEPT !.pc = "await", !.at = NextDrawn(i, ss)]

\* A renderAll call: the await it is suspended at and the slot it waits for;
\* ghost: the slots when it started, and whether a slot was edited while it
\* was suspended.
NewRun(ss) ==
    RunFrom([pc |-> "await", at |-> 0, seen |-> ss, edited |-> FALSE], 1, ss)

Cleared(r) == [op |-> "clear", run |-> r, slot |-> 0]

Drew(r, i) == [op |-> "draw", run |-> r, slot |-> i]

\* App.render (part_006 lines 835-837) calls renderAll and returns at its
\* first await: the canvas is cleared (line 346) and the loop entered.
Started(st, ss) ==
    [runs |-> Append(st.runs, NewRun(ss)),
     output |-> Append(st.output, Cleared(Len(st.runs) + 1))]

\* Ghost: the suspended calls learn that a slot was edited.
Disturbed(rr) ==
    [r \in 1..Len(rr) |->
        IF rr[r].pc = "await" THEN [rr[r] EXCEPT !.edited = TRUE] ELSE rr[r]]

\* updateSlot and clearSlot (part_003 lines 109-114, 155-160) emit
\* slot:changed and then render:request; the App's handler of each
\* (part_006 lines 590, 599) calls render() without awaiting it.
SlotChanged(ss) ==
    /\ Len(runs) + 2 <= MaxRuns
    /\ slots' = ss
    /\ LET st == Started(Started([runs |-> Disturbed(runs), output |-> output],
                                 ss), ss)
       IN runs' = st.runs /\ output' = st.output
    /\ UNCHANGED outsideComposite

\* The layer panel's eye button.
ToggleVisible(i) ==
    SlotChanged([slots EXCEPT ![i].visible = ~@])

\* A sprite is picked for slot i.
PickSprite(i) ==
    SlotChanged([slots EXCEPT ![i].spriteUrl = "u"])

\* clearSlot(i)
ClearSlotAt(i) ==
    SlotChanged([slots EXCEPT ![i] = [visible |-> TRUE, spriteUrl |-> ""]])

\* One render() call from a handler that changes what renderAll draws of a
\* slot without changing line 350's test.
Rerender ==
    /\ Len(runs) + 1 <= MaxRuns
    /\ LET st == Started([runs |-> Disturbed(runs), output |-> output], slots)
       IN runs' = st.runs /\ output' = st.output
    /\ UNCHANGED slots
    /\ UNCHANGED outsideComposite

\* mousemove while dragging (part_006): the slot's position, then render().
DragMove == Rerender

\* The GIF preview's frame callback: slot._gifFrameIdx, then render().
FrameCallback == Rerender

\* Lines 353-364: renderSlot settles for the call r.  When it resolves the
\* surface is drawn and the loop goes on; when it rejects so does renderAll.
RenderSlotSettled(r, ok) ==
    /\ r \in 1..Len(runs)
    /\ runs[r].pc = "await"
    /\ IF ok
       THEN /\ output' = Append(output, Drew(r, runs[r].at))
            /\ runs' = [runs EXCEPT ![r] = RunFrom(@, runs[r].at + 1, slots)]
       ELSE /\ runs' = [runs EXCEPT ![r].pc = "rejected"]
            /\ UNCHANGED output
    /\ UNCHANGED slots
    /\ UNCHANGED outsideComposite

CompositeStart ==
    /\ slots \in [1..NumSlots -> SlotStates]
    /\ runs = <<>>
    /\ output = <<>>

CompositeNext ==
    \/ \E i \in 1..NumSlots : ToggleVisible(i)
    \/ \E i \in 1..NumSlots : PickSprite(i)
    \/ \E i \in 1..NumSlots : ClearSlotAt(i)
    \/ DragMove
    \/ FrameCallback
    \/ \E r \in 1..MaxRuns, ok \in BOOLEAN : RenderSlotSettled(r, ok)

CompositeInit ==
    /\ CacheStart /\ ResolveIdle /\ PixelIdle /\ RenderIdle /\ CompositeStart
    /\ SchedIdle /\ DecodeIdle /\ EncodeIdle /\ LayoutIdle /\ HitIdle
    /\ LoaderIdle /\ ExportIdle /\ FnIdle /\ StoreIdle

SpecComposite == CompositeInit /\ [][CompositeNext]_vars

\* What a renderAll call did to the canvas, in order.
EventsOf(r) == SelectSeq(output, LAMBDA e : e.run = r)

\* The slots renderAll is to draw, in ascending index.
RECURSIVE DrawnFrom(_, _)
DrawnFrom(i, ss) ==
    IF i > Len(ss) THEN <<>>
    ELSE (IF ss[i].visible /\ ss[i].spriteUrl # "" THEN <<i>> ELSE <<>>)
         \o DrawnFrom(i + 1, ss)

\* C11: a renderAll call that has run to completion with no slot edited
\* meanwhile has cleared the canvas first and then drawn the slots that are
\* visible and have a sprite URL, each once, in ascending index, and no
\* other slot.
C11_DrawsVisibleSlotsInOrder ==
    \A r \in 1..Len(runs) :
        (runs[r].pc = "done" /\ ~runs[r].edited)
        => /\ EventsOf(r)[1] = Cleared(r)
           /\ Tail(EventsOf(r))
              = [k \in 1..Len(DrawnFrom(1, runs[r].seen)) |->
                    Drew(r, DrawnFrom(1, runs[r].seen)[k])]

\* A completed call that skipped a slot and drew two others.
C11_Witness ==
    \E r \in 1..Len(runs) :
        /\ runs[r].pc = "done" /\ ~runs[r].edited
        /\ Len(DrawnFrom(1, runs[r].seen)) = 2
        /\ \E i \in 1..NumSlots : ~runs[r].seen[i].visible
        /\ Len(EventsOf(r)) = 3

\* C18: at most one renderAll call on the preview canvas is suspended at
\* any time.
C18_OneCompositeInFlight ==
    Cardinality({r \in 1..Len(runs) : runs[r].pc = "await"}) <= 1

(***************************************************************************)
(* FrameScheduler (src/src/gif/frame-scheduler.ts).  Times are in units of *)
(* 10 ms.  The host keeps the requested animation frame callbacks in a     *)
(* list; an entry is TRUE when it is the request animationId names.  At a  *)
(* frame the host runs the callbacks requested before it, one by one.      *)
(***************************************************************************)
\* The frame lists handed to setFrames, as the frames' delays.
FrameLists == {<<>>, <<10, 10, 10>>, <<5, 10>>}

\* The host's refresh intervals.
RefreshIntervals == {2, 3, 5, 7, 10}

\* The arguments of seek.
SeekArgs == -1..3

\* The callbacks handed to setCallback, by what they do when called: return,
\* or call the scheduler and return, or throw.
Callbacks == {"return", "pause", "stop", "setFrames", "play", "throw"}

\* The frame list a callback hands to setFrames.
CallbackFrames == <<5, 10>>

\* The scheduler's fields and the host's list as one record.
SchedNow ==
    [frames |-> frames, currentIndex |-> currentIndex, animationId |-> animationId,
     lastFrameTime |-> lastFrameTime, playing |-> playing, requested |-> requested,
     dueQ |-> dueQ, fired |-> <<>>, threw |-> FALSE]

Becomes(s) ==
    /\ frames' = s.frames
    /\ currentIndex' = s.currentIndex
    /\ animationId' = s.animationId
    /\ lastFrameTime' = s.lastFrameTime
    /\ playing' = s.playing
    /\ requested' = s.requested
    /\ dueQ' = s.dueQ

\* The requests of a list, none of them the one animationId names.
RECURSIVE Unnamed(_)
Unnamed(q) == IF q = <<>> THEN <<>> ELSE <<FALSE>> \o Unnamed(Tail(q))

\* requestAnimationFrame(this.tick), its id stored in animationId
RequestFrame(s) ==
    [s EXCEPT !.animationId = {"tick"},
              !.requested = Append(Unnamed(s.requested), TRUE),
              !.dueQ = Unnamed(s.dueQ)]

\* cancelAnimationFrame(this.animationId): the request of that id, if it is
\* still in the host's list, is removed.
CancelFrame(s) ==
    [s EXCEPT !.requested = SelectSeq(s.requested, LAMBDA named : ~named),
              !.dueQ = SelectSeq(s.dueQ, LAMBDA named : ~named)]

\* A pause that also resets the index.
PausedResets(s) ==
    [(IF s.animationId # {} THEN CancelFrame(s) ELSE s)
        EXCEPT !.playing = FALSE, !.animationId = {}, !.currentIndex = 0]

\* Lines 28-34
Paused(s) ==
    [(IF s.animationId # {} THEN CancelFrame(s) ELSE s)
        EXCEPT !.playing = FALSE, !.animationId = {}]

\* Lines 36-39
Stopped(s) == [Paused(s) EXCEPT !.currentIndex = 0]

\* Lines 11-15
FramesSet(s, fs) == [Stopped(s) EXCEPT !.frames = fs, !.currentIndex = 0]

\* A frame that is due only after more than its delay.
DueLate(t, last, delay) == t - last > delay

\* Line 67: now - this.lastFrameTime >= frame.delay
Due(t, last, delay) == t - last >= delay

\* Ghost: a call of the frame callback.
Fired(s, index) == [index |-> index, delay |-> s.frames[index + 1]]

RECURSIVE Ticked(_, _, _)
RECURSIVE Played(_, _, _)

\* A play() that does not look at the state it is called in.
PlayedAlways(s, t, callback) ==
    Ticked([s EXCEPT !.playing = TRUE, !.lastFrameTime = t], t, callback)

\* Lines 21-26
Played(s, t, callback) ==
    IF Len(s.frames) = 0 \/ s.playing THEN s
    ELSE Ticked([s EXCEPT !.playing = TRUE, !.lastFrameTime = t], t, callback)

\* The callback, called at time t, runs.
Moved(s, t, callback) ==
    CASE callback = "pause" -> Paused(s)
      [] callback = "stop" -> Stopped(s)
      [] callback = "setFrames" -> FramesSet(s, CallbackFrames)
      [] callback = "play" -> Played(s, t, callback)
      [] callback = "throw" -> [s EXCEPT !.threw = TRUE]
      [] OTHER -> s

\* Lines 70-72 and 43-45: the callback is called if one is registered.
Called(s, index, t, callback) ==
    IF callback # "none"
    THEN Moved([s EXCEPT !.fired = Append(s.fired, Fired(s, index))], t, callback)
    ELSE s

\* Lines 60-76: tick at time t; line 75 is not reached when the callback
\* throws.
Ticked(s, t, callback) ==
    IF ~s.playing \/ s.currentIndex >= Len(s.frames) THEN s
    ELSE IF Due(t, s.lastFrameTime, s.frames[s.currentIndex + 1])
    THEN LET next == (s.currentIndex + 1) % Len(s.frames)
             after == Called([s EXCEPT !.lastFrameTime = t, !.currentIndex = next],
                             next, t, callback)
         IN  IF after.threw THEN after ELSE RequestFrame(after)
    ELSE RequestFrame(s)

\* A seek that takes the index as it is given.
SeekIndexAsGiven(index, count) == index

\* Line 42: Math.max(0, Math.min(index, this.frames.length - 1))
SeekIndex(index, count) ==
    IF (IF index < count - 1 THEN index ELSE count - 1) > 0
    THEN (IF index < count - 1 THEN index ELSE count - 1)
    ELSE 0

\* Lines 41-46
Sought(s, index, t, callback) ==
    LET at == SeekIndex(index, Len(s.frames))
    IN  IF at \in 0..(Len(s.frames) - 1)
        THEN Called([s EXCEPT !.currentIndex = at], at, t, callback)
        ELSE [s EXCEPT !.currentIndex = at]

\* Ghost: the record of a call: the state it was made in, the callbacks it
\* made and what they did.
Call(op, given, s) ==
    [op |-> op, arg |-> given, callback |-> onFrame,
     index |-> currentIndex, wasPlaying |-> playing, frames |-> frames,
     registered |-> onFrame # "none", fired |-> s.fired, threw |-> s.threw]

\* The scheduler is called from a task of its own: none of the callbacks of
\* the current frame is still to run.
BetweenFrames == dueQ = <<>>

WithinChains(s) == Len(s.requested) + Len(s.dueQ) <= MaxChains

SetFrames(fs) ==
    /\ BetweenFrames
    /\ Becomes(FramesSet(SchedNow, fs))
    /\ session' = {}
    /\ lastCall' = Call("setFrames", 0, FramesSet(SchedNow, fs))
    /\ UNCHANGED <<onFrame, perfNow, refresh>>
    /\ UNCHANGED outsideSched

\* Lines 17-19
SetCallback(callback) ==
    /\ BetweenFrames
    /\ onFrame' = callback
    /\ lastCall' = Call("setCallback", 0, SchedNow)
    /\ UNCHANGED <<frames, currentIndex, animationId, lastFrameTime, playing,
                   requested, dueQ, perfNow, refresh, session>>
    /\ UNCHANGED outsideSched

Play ==
    /\ BetweenFrames
    /\ WithinChains(Played(SchedNow, perfNow, onFrame))
    /\ Becomes(Played(SchedNow, perfNow, onFrame))
    /\ session' = IF Len(frames) = 0 \/ playing THEN session
                  ELSE IF currentIndex = 0 THEN {perfNow} ELSE {}
    /\ lastCall' = Call("play", 0, Played(SchedNow, perfNow, onFrame))
    /\ UNCHANGED <<onFrame, perfNow, refresh>>
    /\ UNCHANGED outsideSched

Pause ==
    /\ BetweenFrames
    /\ Becomes(Paused(SchedNow))
    /\ session' = {}
    /\ lastCall' = Call("pause", 0, Paused(SchedNow))
    /\ UNCHANGED <<onFrame, perfNow, refresh>>
    /\ UNCHANGED outsideSched

Stop ==
    /\ BetweenFrames
    /\ Becomes(Stopped(SchedNow))
    /\ session' = {}
    /\ lastCall' = Call("stop", 0, Stopped(SchedNow))
    /\ UNCHANGED <<onFrame, perfNow, refresh>>
    /\ UNCHANGED outsideSched

Seek(index) ==
    /\ BetweenFrames
    /\ WithinChains(Sought(SchedNow, index, perfNow, onFrame))
    /\ Becomes(Sought(SchedNow, index, perfNow, onFrame))
    /\ session' = {}
    /\ lastCall' = Call("seek", index, Sought(SchedNow, index, perfNow, onFrame))
    /\ UNCHANGED <<onFrame, perfNow, refresh>>
    /\ UNCHANGED outsideSched

\* The host's frame: one refresh interval after the previous one, the
\* callbacks requested so far become due.
Frame ==
    /\ BetweenFrames
    /\ requested # <<>>
    /\ perfNow + refresh <= MaxTime
    /\ perfNow' = perfNow + refresh
    /\ dueQ' = requested
    /\ requested' = <<>>
    /\ UNCHANGED <<frames, currentIndex, animationId, lastFrameTime, playing,
                   onFrame, refresh, session, lastCall>>
    /\ UNCHANGED outsideSched

\* The host runs the next callback that is due: tick.
Tick ==
    /\ dueQ # <<>>
    /\ LET s == Ticked([SchedNow EXCEPT !.dueQ = Tail(dueQ)], perfNow, onFrame)
       IN  /\ WithinChains(s)
           /\ Becomes(s)
           /\ lastCall' = Call("tick", 0, s)
           /\ session' = IF s.fired = <<>> \/ onFrame = "return" THEN session
                         ELSE {}
    /\ UNCHANGED <<onFrame, perfNow, refresh>>
    /\ UNCHANGED outsideSched

\* Time passes while no animation frame is requested.
Wait ==
    /\ BetweenFrames
    /\ requested = <<>>
    /\ perfNow + refresh <= MaxTime
    /\ perfNow' = perfNow + refresh
    /\ UNCHANGED <<frames, currentIndex, animationId, lastFrameTime, playing,
                   requested, dueQ, onFrame, refresh, session, lastCall>>
    /\ UNCHANGED outsideSched

SchedStart ==
    /\ frames = <<>>
    /\ currentIndex = 0
    /\ animationId = {}
    /\ lastFrameTime = 0
    /\ playing = FALSE
    /\ onFrame = "none"
    /\ perfNow = 0
    /\ refresh \in RefreshIntervals
    /\ session = {}
    /\ requested = <<>>
    /\ dueQ = <<>>
    /\ lastCall = [op |-> "new", arg |-> 0, callback |-> "none",
                   index |-> 0, wasPlaying |-> FALSE, frames |-> <<>>,
                   registered |-> FALSE, fired |-> <<>>, threw |-> FALSE]

SchedNext ==
    \/ \E fs \in FrameLists : SetFrames(fs)
    \/ \E callback \in Callbacks : SetCallback(callback)
    \/ Play
    \/ Pause
    \/ Stop
    \/ \E i \in SeekArgs : Seek(i)
    \/ Frame
    \/ Tick
    \/ Wait

SchedInit ==
    /\ CacheStart /\ ResolveIdle /\ PixelIdle /\ RenderIdle /\ CompositeIdle
    /\ SchedStart /\ DecodeIdle /\ EncodeIdle /\ LayoutIdle /\ HitIdle
    /\ LoaderIdle /\ ExportIdle /\ FnIdle /\ StoreIdle

SpecSched == SchedInit /\ [][SchedNext]_vars

\* The time of the first tick at which a frame of the given delay is due,
\* counted from the previous advance, at a refresh interval.
AdvanceAfter(delay, every) == ((delay + every - 1) \div every) * every

\* The ticks up to 250 ms have run and the next one is later.
At250ms ==
    /\ frames = <<10, 10, 10>>
    /\ session = {0}
    /\ BetweenFrames
    /\ perfNow <= 25
    /\ perfNow + refresh > 25

\* C12: with 3 frames of 100 ms, play() at time 0 and only ticks since, the
\* current index at 250 ms is 2 at every refresh interval at which two
\* advances, each at the first tick 100 ms or more after the one before,
\* fit into 250 ms, and 1 at the other refresh intervals of at most 100 ms.
C12_IndexTwoWhenAdvancesFit ==
    At250ms => currentIndex = (IF 2 * AdvanceAfter(10, refresh) <= 25 THEN 2 ELSE 1)

\* Two advances at a refresh interval of 50 ms, seen at 250 ms.
C12_Witness ==
    At250ms /\ refresh = 5 /\ perfNow = 25 /\ currentIndex = 2 /\ lastFrameTime = 20

\* C12 as stated: the current index at 250 ms is 2 at every refresh
\* interval of at most 100 ms.
C12_IndexTwoAfter250ms == At250ms => currentIndex = 2

\* C13: with frames and a callback registered, seek(i) calls the callback
\* once, with i clamped into [0, frameCount - 1] and the frame there; when
\* the callback does not call the scheduler itself, the current index is
\* that index and isPlaying is as it was.
C13_SeekClampsAndFires ==
    (lastCall.op = "seek" /\ Len(lastCall.frames) > 0 /\ lastCall.registered)
    => LET at == IF lastCall.arg < 0 THEN 0
                 ELSE IF lastCall.arg > Len(lastCall.frames) - 1
                      THEN Len(lastCall.frames) - 1
                 ELSE lastCall.arg
       IN  /\ lastCall.fired = <<[index |-> at, delay |-> lastCall.frames[at + 1]]>>
           /\ lastCall.callback \in {"return", "throw"} =>
                 /\ currentIndex = at
                 /\ playing = lastCall.wasPlaying
                 /\ frames = lastCall.frames

\* seek beyond the last frame while playing.
C13_Witness ==
    /\ lastCall.op = "seek" /\ Len(lastCall.frames) = 3 /\ lastCall.registered
    /\ lastCall.callback = "return"
    /\ lastCall.arg = 3 /\ lastCall.wasPlaying /\ lastCall.index = 1
    /\ currentIndex = 2

\* The requests the host holds, run or not yet run in the current frame.
Scheduled == Len(requested) + Len(dueQ)

\* C26: whenever the scheduler is playing with a non-empty frame list and
\* the current call has returned, exactly one tick is scheduled with the
\* host, whatever the per-frame callback does.
C26_OneTickWhilePlaying == (playing /\ Len(frames) > 0) => Scheduled = 1

\* C27: while the scheduler is not playing, after pause(), stop() or
\* setFrames() has returned, no tick is scheduled, also when the call was
\* made by the per-frame callback during a tick.
C27_NoTickWhenNotPlaying == ~playing => Scheduled = 0

\* A tick is still requested after the callback has paused the scheduler.
TickLeftByCallback ==
    /\ lastCall.op = "tick" /\ lastCall.callback \in {"pause", "stop", "setFrames"}
    /\ lastCall.fired # <<>>
    /\ ~playing
    /\ Scheduled > 0

\* C28: play() changes no state of the scheduler and requests no tick when
\* the scheduler is playing or has no frames; otherwise the scheduler is
\* playing, the reference timestamp is the time of the call, the index and
\* the frames are kept and one more tick is requested.
C28_PlayGuardedStart ==
    [][Play =>
        IF playing \/ Len(frames) = 0
        THEN UNCHANGED <<frames, currentIndex, animationId, lastFrameTime,
                         playing, onFrame, requested, dueQ>>
        ELSE /\ playing'
             /\ lastFrameTime' = perfNow
             /\ currentIndex' = currentIndex
             /\ frames' = frames
             /\ animationId' # {}
             /\ Len(requested') = Len(requested) + 1
             /\ lastCall'.fired = <<>>]_vars

\* play() at frame 1 after a pause there.
C28_Witness ==
    /\ lastCall.op = "play" /\ ~lastCall.wasPlaying /\ lastCall.index = 1
    /\ Len(frames) = 3
    /\ playing /\ currentIndex = 1 /\ lastFrameTime = perfNow /\ perfNow > 0
    /\ requested = <<TRUE>>

\* C29: pause() keeps the index and stop() sets it to 0; both leave the
\* scheduler not playing, keep the frames and call no callback, and a
\* play() after them starts at the index they left.
C29_PauseKeepsStopResets ==
    [][/\ Pause =>
            /\ currentIndex' = currentIndex
            /\ ~playing' /\ frames' = frames /\ lastCall'.fired = <<>>
            /\ Len(frames) > 0 =>
                  /\ Played(SchedNow', perfNow, onFrame).playing
                  /\ Played(SchedNow', perfNow, onFrame).currentIndex = currentIndex
       /\ Stop =>
            /\ currentIndex' = 0
            /\ ~playing' /\ frames' = frames /\ lastCall'.fired = <<>>
            /\ Len(frames) > 0 =>
                  /\ Played(SchedNow', perfNow, onFrame).playing
                  /\ Played(SchedNow', perfNow, onFrame).currentIndex = 0]_vars

\* pause() while playing at frame 2.
C29_Witness ==
    /\ lastCall.op = "pause" /\ lastCall.wasPlaying /\ lastCall.index = 2
    /\ currentIndex = 2 /\ ~playing /\ Len(frames) = 3 /\ Scheduled = 0

(***************************************************************************)
(* decodeGif (src/src/gif/decoder.ts).  The canvas is a strip of GifWidth  *)
(* pixels; a pixel is 0 when transparent, else the number of the frame     *)
(* whose pixel it shows.  A frame's pixels are opaque over its rectangle.  *)
(***************************************************************************)
GifPixels == 1..GifWidth

\* The vendor delays, in 1/100 s.
VendorDelays == {0, 1, 5}

\* reader.frameInfo(i): rectangle x..x+width-1, disposal, delay.
FrameInfos ==
    {f \in [x : GifPixels, width : 1..GifWidth, disposal : 1..3, delay : VendorDelays] :
        f.x + f.width - 1 <= GifWidth}

RectOf(info) == info.x..(info.x + info.width - 1)

\* clearRect(info.x, info.y, info.width, info.height)
ClearRect(canvas, info) ==
    [p \in GifPixels |-> IF p \in RectOf(info) THEN 0 ELSE canvas[p]]

\* Lines 39-50 and 70: frame i decoded into a transparent buffer and drawn
\* over the canvas.
DrawFrame(canvas, info, i) ==
    [p \in GifPixels |-> IF p \in RectOf(info) THEN i ELSE canvas[p]]

\* Lines 65-70
Composited(canvas, info, i) ==
    DrawFrame(IF info.disposal = 2 THEN ClearRect(canvas, info) ELSE canvas, info, i)

\* A disposal that clears the rectangle of a restore-to-previous frame.
PostDisposalClears(canvas, saved, info) ==
    IF info.disposal \in {2, 3} THEN ClearRect(canvas, info) ELSE canvas

\* A disposal that leaves the canvas as the frame drew it.
PostDisposalKeeps(canvas, saved, info) == canvas

\* Lines 82-86; saved is the canvas of line 61.
PostDisposal(canvas, saved, info) ==
    IF info.disposal = 2 THEN ClearRect(canvas, info)
    ELSE IF info.disposal = 3 THEN saved
    ELSE canvas

\* A duration without the floor.
DelayUnfloored(info) == info.delay * 10

\* Line 36
DelayOf(info) == IF info.delay * 10 > 20 THEN info.delay * 10 ELSE 20

\* Lines 34-87: one pass of the loop.
DecodeFrame(info) ==
    /\ ~returned
    /\ Len(decoded) < numFrames
    /\ infos' = Append(infos, info)
    /\ decoded' = Append(decoded,
                         [canvas |-> Composited(compCanvas, info, Len(decoded) + 1),
                          delay |-> DelayOf(info),
                          before |-> compCanvas])
    /\ compCanvas' = PostDisposal(Composited(compCanvas, info, Len(decoded) + 1),
                                  compCanvas, info)
    /\ UNCHANGED <<numFrames, returned>>
    /\ UNCHANGED outsideDecode

\* Line 89
DecodeReturn ==
    /\ ~returned
    /\ Len(decoded) = numFrames
    /\ returned' = TRUE
    /\ UNCHANGED <<numFrames, infos, compCanvas, decoded>>
    /\ UNCHANGED outsideDecode

\* Lines 20-32
DecodeStart ==
    /\ numFrames \in 1..MaxFrames
    /\ infos = <<>>
    /\ compCanvas = [p \in GifPixels |-> 0]
    /\ decoded = <<>>
    /\ returned = FALSE

DecodeNext ==
    \/ \E info \in FrameInfos : DecodeFrame(info)
    \/ DecodeReturn

DecodeInit ==
    /\ CacheStart /\ ResolveIdle /\ PixelIdle /\ RenderIdle /\ CompositeIdle
    /\ SchedIdle /\ DecodeStart /\ EncodeIdle /\ LayoutIdle /\ HitIdle
    /\ LoaderIdle /\ ExportIdle /\ FnIdle /\ StoreIdle

SpecDecode == DecodeInit /\ [][DecodeNext]_vars

\* C31: decodeGif returns one output frame per source frame, in source
\* order, and the duration of each is 10 times the vendor delay in
\* milliseconds, or 20 ms when that is less, so never below 20 ms.
C31_OneFramePerSourceFloor20 ==
    returned =>
        /\ Len(decoded) = numFrames
        /\ \A k \in 1..Len(decoded) :
              /\ \A p \in RectOf(infos[k]) : decoded[k].canvas[p] = k
              /\ decoded[k].delay =
                    (IF 10 * infos[k].delay >= 20 THEN 10 * infos[k].delay ELSE 20)
              /\ decoded[k].delay >= 20

\* Three frames with the vendor delays 0, 1 and 5.
C31_Witness ==
    /\ returned /\ Len(decoded) = 3
    /\ <<infos[1].delay, infos[2].delay, infos[3].delay>> = <<0, 1, 5>>
    /\ <<decoded[1].delay, decoded[2].delay, decoded[3].delay>> = <<20, 20, 50>>

\* C14: a frame k with disposal restore-to-background shows its pixels in
\* its own output, and in the output of frame k+1 every pixel of frame k's
\* rectangle that frame k+1 does not draw is transparent.
C14_BackgroundDisposalClears ==
    \A k \in 1..Len(decoded) :
        infos[k].disposal = 2 =>
            /\ \A p \in RectOf(infos[k]) : decoded[k].canvas[p] = k
            /\ k < Len(decoded) =>
                 \A p \in RectOf(infos[k]) \ RectOf(infos[k + 1]) :
                     decoded[k + 1].canvas[p] = 0

\* Frame 1 fills the canvas, frame 2 draws the middle pixel with disposal
\* restore-to-background, frame 3 draws elsewhere and is kept.
C14_Witness ==
    /\ returned /\ Len(decoded) = 3
    /\ RectOf(infos[1]) = GifPixels /\ infos[1].disposal = 1
    /\ RectOf(infos[2]) = {2} /\ infos[2].disposal = 2
    /\ RectOf(infos[3]) = {3} /\ infos[3].disposal = 1
    /\ decoded[2].canvas = <<1, 2, 1>>
    /\ decoded[3].canvas = <<1, 0, 3>>

(***************************************************************************)
(* encodeGif (src/src/gif/encoder.ts).                                     *)
(***************************************************************************)
\* A call: where it is, the state of its two asset loads and of its
\* encoder, and (ghost) why it was rejected.
NewEncode ==
    [pc |-> "assets",
     script |-> IF gifJsLoaded THEN "cached" ELSE "pending",
     worker |-> IF workerBlobUrl THEN "cached" ELSE "fetching",
     encoder |-> "none",
     why |-> ""]

Settled(c) == c.pc \in {"resolved", "rejected"}

\* Promise.all of line 74 rejects with the first asset load that fails.
AssetFailed(c) ==
    IF c.pc = "assets" THEN [c EXCEPT !.pc = "rejected", !.why = "assets"] ELSE c

\* Lines 73-74 up to the await, with loadGifJs (33-45) and getWorkerBlobUrl
\* (55-57) up to theirs.
EncodeGif ==
    /\ Len(encs) < MaxEncodes
    /\ encs' = Append(encs, NewEncode)
    /\ UNCHANGED <<gifJsLoaded, workerBlobUrl, gifDefined>>
    /\ UNCHANGED outsideEncode

\* Lines 38-42: the script element's onload or onerror; a loaded script
\* may or may not define the global.
ScriptSettled(i, ok, defines) ==
    /\ i \in DOMAIN encs
    /\ encs[i].script = "pending"
    /\ IF ok
       THEN /\ gifJsLoaded' = TRUE
            /\ gifDefined' = (gifDefined \/ defines)
            /\ encs' = [encs EXCEPT ![i].script = "loaded"]
       ELSE /\ encs' = [encs EXCEPT ![i] = AssetFailed([encs[i] EXCEPT !.script = "failed"])]
            /\ UNCHANGED <<gifJsLoaded, gifDefined>>
    /\ UNCHANGED workerBlobUrl
    /\ UNCHANGED outsideEncode

\* Lines 57-58: the fetch settles.
WorkerFetched(i, ok) ==
    /\ i \in DOMAIN encs
    /\ encs[i].worker = "fetching"
    /\ encs' = IF ok
               THEN [encs EXCEPT ![i].worker = "reading"]
               ELSE [encs EXCEPT ![i] = AssetFailed([encs[i] EXCEPT !.worker = "failed"])]
    /\ UNCHANGED <<gifJsLoaded, workerBlobUrl, gifDefined>>
    /\ UNCHANGED outsideEncode

\* Lines 59-62: res.text() settles.
WorkerRead(i, ok) ==
    /\ i \in DOMAIN encs
    /\ encs[i].worker = "reading"
    /\ IF ok
       THEN /\ workerBlobUrl' = TRUE
            /\ encs' = [encs EXCEPT ![i].worker = "ready"]
       ELSE /\ encs' = [encs EXCEPT ![i] = AssetFailed([encs[i] EXCEPT !.worker = "failed"])]
            /\ UNCHANGED workerBlobUrl
    /\ UNCHANGED <<gifJsLoaded, gifDefined>>
    /\ UNCHANGED outsideEncode

\* Lines 76-104: after the await; built is whether the constructor, addFrame
\* and render() all returned.
StartedEncoder(c, built) ==
    IF ~gifDefined THEN [c EXCEPT !.pc = "rejected", !.why = "unavailable"]
    ELSE IF ~built THEN [c EXCEPT !.pc = "rejected", !.why = "construct"]
    ELSE [c EXCEPT !.pc = "encoding", !.encoder = "running"]

AssetsReady(i, built) ==
    /\ i \in DOMAIN encs
    /\ encs[i].pc = "assets"
    /\ encs[i].script \in {"cached", "loaded"}
    /\ encs[i].worker \in {"cached", "ready"}
    /\ encs' = [encs EXCEPT ![i] = StartedEncoder(encs[i], built)]
    /\ UNCHANGED <<gifJsLoaded, workerBlobUrl, gifDefined>>
    /\ UNCHANGED outsideEncode

\* Line 95: the encoder's 'finished' event.
EncoderFinished(i) ==
    /\ i \in DOMAIN encs
    /\ encs[i].encoder = "running"
    /\ encs' = [encs EXCEPT ![i].pc = "resolved", ![i].encoder = "finished"]
    /\ UNCHANGED <<gifJsLoaded, workerBlobUrl, gifDefined>>
    /\ UNCHANGED outsideEncode

\* The encoder fails in its workers after render() returned; lines 95-100
\* register no handler that hears of it.
EncoderFailed(i) ==
    /\ i \in DOMAIN encs
    /\ encs[i].encoder = "running"
    /\ encs' = [encs EXCEPT ![i].encoder = "failed"]
    /\ UNCHANGED <<gifJsLoaded, workerBlobUrl, gifDefined>>
    /\ UNCHANGED outsideEncode

EncodeStart ==
    /\ gifJsLoaded = FALSE
    /\ workerBlobUrl = FALSE
    /\ gifDefined = FALSE
    /\ encs = <<>>

\* What the host does to the calls in flight.
EncodeSettles ==
    \E i \in 1..MaxEncodes :
        \/ \E ok, defines \in BOOLEAN : ScriptSettled(i, ok, defines)
        \/ \E ok \in BOOLEAN : WorkerFetched(i, ok)
        \/ \E ok \in BOOLEAN : WorkerRead(i, ok)
        \/ \E built \in BOOLEAN : AssetsReady(i, built)
        \/ EncoderFinished(i)
        \/ EncoderFailed(i)

EncodeNext == EncodeGif \/ EncodeSettles

EncodeInit ==
    /\ CacheStart /\ ResolveIdle /\ PixelIdle /\ RenderIdle /\ CompositeIdle
    /\ SchedIdle /\ DecodeIdle /\ EncodeStart /\ LayoutIdle /\ HitIdle
    /\ LoaderIdle /\ ExportIdle /\ FnIdle /\ StoreIdle

\* Every load, every continuation and every running encoder is eventually
\* dealt with.
SpecEncode == EncodeInit /\ [][EncodeNext]_vars /\ WF_vars(EncodeSettles)

\* C15: every encodeGif call is eventually resolved or rejected.
C15_EveryCallSettles ==
    \A i \in 1..MaxEncodes :
        (Len(encs) >= i) ~> (Len(encs) >= i /\ Settled(encs[i]))

\* The calls that appended a script element whose load has not failed, and
\* the calls that fetched the worker script without failure.
ScriptLoads == {i \in DOMAIN encs : encs[i].script \in {"pending", "loaded"}}

WorkerFetches == {i \in DOMAIN encs : encs[i].worker \in {"fetching", "reading", "ready"}}

\* C32: the script and the worker blob URL are loaded before an encoder is
\* constructed, and no two encodeGif calls load the script or fetch the
\* worker, also when the calls overlap in time.
C32_RuntimeLoadedOnce ==
    /\ \A i \in DOMAIN encs :
          encs[i].encoder # "none" => gifJsLoaded /\ workerBlobUrl
    /\ Cardinality(ScriptLoads) <= 1
    /\ Cardinality(WorkerFetches) <= 1

\* Every call whose encoder did not fail after render() is eventually
\* resolved or rejected.
SettlesUnlessBatchFails ==
    \A i \in 1..MaxEncodes :
        (Len(encs) >= i) ~>
            (Len(encs) >= i /\ (Settled(encs[i]) \/ encs[i].encoder = "failed"))

\* A call is resolved exactly when its encoder finished, and a call whose
\* encoder failed after render() is neither resolved nor rejected.
EncodeOutcomes ==
    \A i \in DOMAIN encs :
        /\ encs[i].pc = "resolved" <=> encs[i].encoder = "finished"
        /\ encs[i].encoder = "failed" => encs[i].pc = "encoding"
        /\ encs[i].pc = "rejected" => encs[i].why \in {"assets", "unavailable", "construct"}

(***************************************************************************)
(* computeIconLayout (src/src/renderer/icon-layout.ts).  Anchors and       *)
(* targets are in hundredths, offsets in hundredths of a pixel, the icon   *)
(* scale in 512ths.                                                        *)
(***************************************************************************)
\* Lines 17-20, as {} or {value}
MUT_ICON_X_EXCEPT(baseName) ==
    CASE baseName = "Pepper" -> {50}
      [] baseName = "Banana" -> {60}
      [] OTHER -> {}

\* Lines 22-29
MUT_ICON_Y_EXCEPT(baseName) ==
    CASE baseName = "Banana" -> {60}
      [] baseName = "Carrot" -> {60}
      [] baseName = "Sunflower" -> {50}
      [] baseName = "Starweaver" -> {50}
      [] baseName = "FavaBean" -> {25}
      [] baseName = "BurrosTail" -> {20}
      [] OTHER -> {}

\* A shape that counts as vertical from 1.5 times its width on.
IsVerticalFrom(width, height) == 2 * height >= 3 * width

\* Line 88: height > width * 1.5
IsVerticalShape(width, height) == 2 * height > 3 * width

\* a ?? b over {} or {value}
OrElse(opt, other) == IF opt = {} THEN other ELSE The(opt)

Min(a, b) == IF a < b THEN a ELSE b

\* Lines 81-105
ComputeIconLayout(spriteWidth, spriteHeight, spriteAnchorX, spriteAnchorY, spriteKey, isTall) ==
    LET baseName == BaseNameOf(spriteKey)
        targetX == OrElse(MUT_ICON_X_EXCEPT(baseName), spriteAnchorX)
        targetY == OrElse(MUT_ICON_Y_EXCEPT(baseName),
                          IF IsVerticalShape(spriteWidth, spriteHeight)
                          THEN spriteAnchorY ELSE 40)
        iconScale == Min(384, Min(spriteWidth, spriteHeight))
    IN  [width |-> spriteWidth,
         height |-> spriteHeight,
         anchorX |-> spriteAnchorX,
         anchorY |-> spriteAnchorY,
         offset |-> [x |-> (targetX - spriteAnchorX) * spriteWidth,
                     y |-> (targetY - spriteAnchorY) * spriteHeight],
         iconScale |-> IF isTall THEN iconScale * 2 ELSE iconScale]

\* The sprite keys of the layout specification; a key without a slash is
\* its own base name.
LayoutKeys ==
    {"sprite/plant/Carrot", "sprite/tall-plant/Bamboo", "Banana", "FavaBean", "Melon"}

LayoutInputs ==
    [width : {100, 200, 600}, height : {100, 150, 151, 300},
     anchorX : {50}, anchorY : {40, 50, 90}, key : LayoutKeys, tall : BOOLEAN]

\* render-cache.ts line 163
LayoutCall ==
    /\ layout = <<>>
    /\ layout' = ComputeIconLayout(layoutArgs.width, layoutArgs.height,
                                   layoutArgs.anchorX, layoutArgs.anchorY,
                                   layoutArgs.key, layoutArgs.tall)
    /\ UNCHANGED layoutArgs
    /\ UNCHANGED outsideLayout

LayoutStart == layoutArgs \in LayoutInputs /\ layout = <<>>

LayoutNext == LayoutCall

LayoutInit ==
    /\ CacheStart /\ ResolveIdle /\ PixelIdle /\ RenderIdle /\ CompositeIdle
    /\ SchedIdle /\ DecodeIdle /\ EncodeIdle /\ LayoutStart /\ HitIdle
    /\ LoaderIdle /\ ExportIdle /\ FnIdle /\ StoreIdle

SpecLayout == LayoutInit /\ [][LayoutNext]_vars

\* The species with a vertical exception, and their target Y.
SpeciesY ==
    [Banana |-> 60, Carrot |-> 60, Sunflower |-> 50, Starweaver |-> 50,
     FavaBean |-> 25, BurrosTail |-> 20]

\* C16: the vertical offset puts the icons at the species' exception when
\* the base name has one; else at the sprite's own anchor Y (offset 0) when
\* the height exceeds 1.5 times the width, and at 0.4 for every other sprite.
C16_TargetYByShape ==
    layout # <<>> =>
        LET name == BaseNameOf(layoutArgs.key)
        IN  IF name \in DOMAIN SpeciesY
            THEN layout.offset.y = (SpeciesY[name] - layoutArgs.anchorY) * layoutArgs.height
            ELSE IF layoutArgs.height * 10 > layoutArgs.width * 15
            THEN layout.offset.y = 0
            ELSE layout.offset.y = (40 - layoutArgs.anchorY) * layoutArgs.height

\* Width 100, height 300, anchor (0.5, 0.9), no exception: offset 0, where
\* a target of 0.4 would give an offset of -150 pixels.
C16_Witness ==
    /\ layout # <<>>
    /\ layoutArgs.width = 100 /\ layoutArgs.height = 300
    /\ layoutArgs.anchorX = 50 /\ layoutArgs.anchorY = 90
    /\ layoutArgs.key = "sprite/tall-plant/Bamboo"
    /\ layout.offset.y = 0
    /\ (40 - layoutArgs.anchorY) * layoutArgs.height = -15000

\* The compositing canvas after frame k's disposal: the canvas frame k+1 was
\* drawn on, or the present one.
CanvasAfter(k) == IF k < Len(decoded) THEN decoded[k + 1].before ELSE compCanvas

\* C30: a frame k with disposal restore-to-previous shows its pixels in its
\* own output; the canvas after its output was captured is the canvas as it
\* was before the frame was drawn, and no later output shows a pixel of
\* frame k.
C30_RestorePreviousKeepsEarlier ==
    \A k \in 1..Len(decoded) :
        infos[k].disposal = 3 =>
            /\ \A p \in RectOf(infos[k]) : decoded[k].canvas[p] = k
            /\ CanvasAfter(k) = decoded[k].before
            /\ \A j \in (k + 1)..Len(decoded) :
                  \A p \in GifPixels : decoded[j].canvas[p] # k

\* Frame 1 fills the canvas, frame 2 covers the middle pixel with disposal
\* restore-to-previous, frame 3 draws elsewhere: frame 1 shows again.
C30_Witness ==
    /\ returned /\ Len(decoded) = 3
    /\ RectOf(infos[1]) = GifPixels /\ infos[1].disposal = 1
    /\ RectOf(infos[2]) = {2} /\ infos[2].disposal = 3
    /\ RectOf(infos[3]) = {3} /\ infos[3].disposal = 1
    /\ decoded[2].canvas = <<1, 2, 1>>
    /\ decoded[3].canvas = <<1, 1, 3>>
(***************************************************************************)
(* SpriteLoader (src/src/api/sprite-loader.ts).  An image is its URL; a    *)
(* promise is the number of the load() call that made it.  The steps that  *)
(* follow a fetch's end (then, catch, finally and the promise's finally)   *)
(* are microtasks of one task, so no call of the loader runs between them. *)
(***************************************************************************)
Urls == {"a", "b", "c", "d"}

\* The priorities load() is called with; preloadUrls uses -1.
Priorities == {0, 1}

\* The lists handed to preloadUrls.
UrlLists == {<<"d">>, <<"a", "b">>, <<"c", "c">>}

\* The loader's fields, the fetches the host runs, and the ghosts, as one
\* record.
LoaderNow ==
    [cache |-> cache, pending |-> pending, queue |-> queue,
     activeCount |-> activeCount, lruOrder |-> lruOrder, fetching |-> fetching,
     waiting |-> waiting, nLoads |-> nLoads, starts |-> <<>>, settled |-> {}]

LoaderBecomes(s) ==
    /\ cache' = s.cache
    /\ pending' = s.pending
    /\ queue' = s.queue
    /\ activeCount' = s.activeCount
    /\ lruOrder' = s.lruOrder
    /\ fetching' = s.fetching
    /\ waiting' = s.waiting
    /\ nLoads' = s.nLoads

\* A list with one item more, placed after the items whose priority is not
\* lower than its own.
RECURSIVE InsertedByPriority(_, _)
InsertedByPriority(q, item) ==
    IF q = <<>> THEN <<item>>
    ELSE IF Head(q).priority >= item.priority
         THEN <<Head(q)>> \o InsertedByPriority(Tail(q), item)
         ELSE <<item>> \o q

\* The list as it is.
UnsortedQueue(q) == q

\* Line 76: queue.sort((a, b) => b.priority - a.priority), a stable sort
RECURSIVE SortedQueue(_)
SortedQueue(q) ==
    IF q = <<>> THEN <<>>
    ELSE InsertedByPriority(SortedQueue(SubSeq(q, 1, Len(q) - 1)), q[Len(q)])

\* A worker is taken as free when as many as the limit are active.
HasWorkerAtLimit(count) == count <= MAX_CONCURRENCY

\* Line 98: this.activeCount < MAX_CONCURRENCY
HasWorker(count) == count < MAX_CONCURRENCY

\* Lines 97-112: the fetches are started; their ends are FetchEnds.
RECURSIVE ProcessQueue(_)
ProcessQueue(s) ==
    IF HasWorker(s.activeCount) /\ Len(s.queue) > 0
    THEN ProcessQueue([s EXCEPT !.queue = Tail(s.queue),
                                !.activeCount = @ + 1,
                                !.fetching = @ \cup {Head(s.queue)},
                                !.starts = Append(@, [item |-> Head(s.queue),
                                                      left |-> Tail(s.queue)])])
    ELSE s

\* Lines 145-151
TouchLru(order, url) ==
    IF \E i \in 1..Len(order) : order[i] = url
    THEN Append(SelectSeq(order, LAMBDA u : u # url), url)
    ELSE order

\* Lines 136-143
StoreInCache(s, url) ==
    LET full == Cardinality(s.cache) >= MAX_CACHE_SIZE /\ s.lruOrder # <<>>
        kept == IF full THEN s.cache \ {Head(s.lruOrder)} ELSE s.cache
        order == IF Cardinality(s.cache) >= MAX_CACHE_SIZE /\ s.lruOrder # <<>>
                 THEN Tail(s.lruOrder) ELSE s.lruOrder
    IN  [s EXCEPT !.cache = kept \cup {url}, !.lruOrder = Append(order, url)]

PendingOf(s, url) == {p \in s.pending : p.url = url}

\* A load that does not look at the pending map.
LoadedAnew(s, url, priority) ==
    IF url \in s.cache
    THEN [s EXCEPT !.lruOrder = TouchLru(@, url), !.nLoads = @ + 1]
    ELSE LET id == s.nLoads + 1
             started == ProcessQueue(
                 [s EXCEPT !.queue = SortedQueue(Append(@,
                               [url |-> url, priority |-> priority, id |-> id]))])
         IN  [started EXCEPT
                 !.pending = (@ \ PendingOf(s, url)) \cup {[url |-> url, promise |-> id]},
                 !.waiting = @ \cup {[id |-> id, url |-> url, promise |-> id]},
                 !.nLoads = id]

\* Lines 64-83.  The call is waiting unless it returned the cached image.
Loaded(s, url, priority) ==
    IF url \in s.cache
    THEN [s EXCEPT !.lruOrder = TouchLru(@, url), !.nLoads = @ + 1]
    ELSE IF PendingOf(s, url) # {}
    THEN [s EXCEPT
             !.waiting = @ \cup {[id |-> s.nLoads + 1, url |-> url,
                                  promise |-> (CHOOSE p \in PendingOf(s, url) : TRUE).promise]},
             !.nLoads = @ + 1]
    ELSE LET id == s.nLoads + 1
             started == ProcessQueue(
                 [s EXCEPT !.queue = SortedQueue(Append(@,
                               [url |-> url, priority |-> priority, id |-> id]))])
         IN  [started EXCEPT
                 !.pending = @ \cup {[url |-> url, promise |-> id]},
                 !.waiting = @ \cup {[id |-> id, url |-> url, promise |-> id]},
                 !.nLoads = id]

\* Lines 89-95
RECURSIVE Preloaded(_, _)
Preloaded(s, urls) ==
    IF urls = <<>> THEN s
    ELSE Preloaded(IF Head(urls) \notin s.cache /\ PendingOf(s, Head(urls)) = {}
                   THEN Loaded(s, Head(urls), -1)
                   ELSE s,
                   Tail(urls))

\* The end of a fetch that starts no queued request.
AfterFetchIdle(s) == [s EXCEPT !.activeCount = @ - 1]

\* Lines 107-110
AfterFetch(s) == ProcessQueue([s EXCEPT !.activeCount = @ - 1])

\* Lines 102-110 and 81: the fetch of an item has ended, with the image or
\* with an error.
Fetched(s, item, ok) ==
    LET stored == IF ok THEN StoreInCache(s, item.url) ELSE s
    IN  AfterFetch([stored EXCEPT
            !.fetching = @ \ {item},
            !.settled = {w \in s.waiting : w.promise = item.id},
            !.waiting = {w \in s.waiting : w.promise # item.id},
            !.pending = @ \ PendingOf(s, item.url)])

\* Ghost: the record of a call or of a fetch's end.
LoaderCall(op, url, s) ==
    [op |-> op, url |-> url, wasCached |-> url \in cache,
     open |-> {w.promise : w \in {v \in waiting : v.url = url}},
     starts |-> s.starts, settled |-> s.settled]

Load(url, priority) ==
    /\ nLoads < MaxLoads
    /\ LoaderBecomes(Loaded(LoaderNow, url, priority))
    /\ lastLoad' = LoaderCall("load", url, Loaded(LoaderNow, url, priority))
    /\ UNCHANGED outsideLoader

PreloadUrls(urls) ==
    /\ nLoads + Len(urls) <= MaxLoads
    /\ LoaderBecomes(Preloaded(LoaderNow, urls))
    /\ lastLoad' = LoaderCall("preloadUrls", Head(urls), Preloaded(LoaderNow, urls))
    /\ UNCHANGED outsideLoader

FetchEnds(item, ok) ==
    /\ item \in fetching
    /\ LoaderBecomes(Fetched(LoaderNow, item, ok))
    /\ lastLoad' = LoaderCall(IF ok THEN "loaded" ELSE "failed", item.url,
                              Fetched(LoaderNow, item, ok))
    /\ UNCHANGED outsideLoader

\* Lines 153-156
ClearCache ==
    /\ cache # {}
    /\ cache' = {}
    /\ lruOrder' = <<>>
    /\ lastLoad' = LoaderCall("clearCache", "", LoaderNow)
    /\ UNCHANGED <<pending, queue, activeCount, fetching, waiting, nLoads>>
    /\ UNCHANGED outsideLoader

LoaderStart ==
    /\ cache = {}
    /\ pending = {}
    /\ queue = <<>>
    /\ activeCount = 0
    /\ lruOrder = <<>>
    /\ fetching = {}
    /\ waiting = {}
    /\ nLoads = 0
    /\ lastLoad = [op |-> "new", url |-> "", wasCached |-> FALSE, open |-> {},
                   starts |-> <<>>, settled |-> {}]

SomeFetchEnds == \E item \in fetching, ok \in BOOLEAN : FetchEnds(item, ok)

LoaderNext ==
    \/ \E url \in Urls, priority \in Priorities : Load(url, priority)
    \/ \E urls \in UrlLists : PreloadUrls(urls)
    \/ SomeFetchEnds
    \/ ClearCache

LoaderInit ==
    /\ CacheStart /\ ResolveIdle /\ PixelIdle /\ RenderIdle /\ CompositeIdle
    /\ SchedIdle /\ DecodeIdle /\ EncodeIdle /\ LayoutIdle /\ HitIdle
    /\ LoaderStart /\ ExportIdle /\ FnIdle /\ StoreIdle

SpecLoader == LoaderInit /\ [][LoaderNext]_vars

\* Every fetch the loader has started ends.
SpecLoaderFair == SpecLoader /\ WF_vars(SomeFetchEnds)

\* The fetches of a URL that are queued or in flight.
FetchesOf(url) ==
    Cardinality({i \in 1..Len(queue) : queue[i].url = url})
        + Cardinality({f \in fetching : f.url = url})

\* The last load() call put a request into the queue.
Enqueued == \E f \in Range(queue) \cup fetching : f.id = nLoads

\* C22: at most one fetch per URL is queued or in flight; a load(url) made
\* while an earlier load of the URL has not settled waits on that load's
\* promise and enqueues nothing; a load(url) of a cached URL starts and
\* enqueues nothing.
C22_OneFetchPerUrl ==
    /\ \A url \in Urls : FetchesOf(url) <= 1
    /\ (lastLoad.op = "load" /\ lastLoad.open # {}) =>
          /\ ~Enqueued /\ lastLoad.starts = <<>>
          /\ \E w \in waiting : w.id = nLoads /\ w.promise \in lastLoad.open
    /\ (lastLoad.op = "load" /\ lastLoad.wasCached) =>
          /\ ~Enqueued /\ lastLoad.starts = <<>>
          /\ \A w \in waiting : w.id # nLoads

\* A second load of a URL whose fetch is in flight.
C22_Witness ==
    /\ lastLoad.op = "load" /\ lastLoad.open # {} /\ ~lastLoad.wasCached
    /\ \E f \in fetching : f.url = lastLoad.url
    /\ Cardinality({w \in waiting : w.url = lastLoad.url}) = 2

\* C23: the fetches active at the same time are never more than the worker
\* limit, and the active counter, which counts them, is never negative.
C23_ActiveWithinLimit ==
    /\ activeCount >= 0
    /\ activeCount <= MAX_CONCURRENCY
    /\ Cardinality(fetching) = activeCount

\* All workers busy, a request queued, after a fetch has failed.
C23_Witness ==
    /\ lastLoad.op = "failed"
    /\ activeCount = MAX_CONCURRENCY
    /\ queue # <<>>

\* C24: a request that is started has the highest priority of the requests
\* queued at that moment and, of those with that priority, was enqueued
\* first.
C24_StartsHighestThenOldest ==
    \A k \in 1..Len(lastLoad.starts) :
        \A q \in Range(lastLoad.starts[k].left) :
            \/ q.priority < lastLoad.starts[k].item.priority
            \/ /\ q.priority = lastLoad.starts[k].item.priority
               /\ q.id > lastLoad.starts[k].item.id

\* A fetch ends and the newer, higher request is started before an older,
\* lower one that stays queued.
C24_Witness ==
    /\ lastLoad.op \in {"loaded", "failed"}
    /\ Len(lastLoad.starts) = 1
    /\ \E q \in Range(lastLoad.starts[1].left) :
          /\ q.priority < lastLoad.starts[1].item.priority
          /\ q.id < lastLoad.starts[1].item.id

\* No load() call is unsettled, nothing is queued and no fetch is active.
AllSettled == waiting = {} /\ queue = <<>> /\ activeCount = 0

\* C25: when every started fetch ends, then from any moment on a moment
\* comes at which every load() call made so far has settled, the queue is
\* empty and the active count is 0; and a failed fetch rejects the calls
\* waiting for its URL and no other.
C25_EveryLoadSettles ==
    /\ []<>AllSettled
    /\ [](lastLoad.op = "failed" =>
            /\ lastLoad.settled # {}
            /\ \A w \in lastLoad.settled : w.url = lastLoad.url
            /\ \A w \in waiting : w.url # lastLoad.url)

\* A failed fetch has rejected two calls, one of them coalesced, and the
\* loader is idle again.
C25_Witness ==
    /\ lastLoad.op = "failed"
    /\ Cardinality(lastLoad.settled) = 2
    /\ nLoads = MaxLoads
    /\ waiting = {} /\ queue = <<>> /\ activeCount = 0
(***************************************************************************)
(* App.downloadGIF (src/unnamed/part_006, lines 957-1065) and the render   *)
(* cache.  The export keeps the surfaces renderSlot returned for the       *)
(* static slots in staticCanvases while it awaits the next renderSlot;     *)
(* renders of the preview run during these awaits.  A renderSlot call is   *)
(* taken from its cache lookup (line 102) to its return in one step.       *)
(***************************************************************************)
\* The cache fingerprints of the slots rendered.
SlotKeys == {"a", "b", "c"}

\* Lines 102-103 and 337-338 of renderSlot: the surface returned, the cached
\* one or a new one, named by the operation's number.
SurfaceFor(key) ==
    IF MapHas(entries, key) THEN MapGet(entries, key).canvas ELSE ops + 1

\* renderSlot on the cache: a hit stamps the entry, a miss stores the new
\* surface and frees what set() evicts.
RenderThrough(key) ==
    /\ ops < MaxOps
    /\ ops' = ops + 1
    /\ entries' = IF MapHas(entries, key)
                  THEN CacheTouch(entries, key, now)
                  ELSE CacheSet(entries, key, ops + 1, now)
    /\ freed' = IF MapHas(entries, key) THEN freed
                ELSE freed \cup SetFrees(entries)
    /\ UNCHANGED <<now, recency, cacheOp>>

\* Lines 957-987
DownloadGif ==
    /\ exportPc = "idle"
    /\ exportPc' = "static"
    /\ staticCanvases' = {}
    /\ UNCHANGED <<blank, cacheVars>>
    /\ UNCHANGED outsideExport

\* Lines 988-993: one pass of the loop over the static slots.
PrerenderStatic(key) ==
    /\ exportPc = "static"
    /\ RenderThrough(key)
    /\ staticCanvases' = staticCanvases \cup {SurfaceFor(key)}
    /\ UNCHANGED <<exportPc, blank>>
    /\ UNCHANGED outsideExport

\* A renderSlot of the preview (renderAll, line 353) that runs while the
\* export awaits.
PreviewRender(key) ==
    /\ exportPc = "static"
    /\ RenderThrough(key)
    /\ UNCHANGED <<staticCanvases, exportPc, blank>>
    /\ UNCHANGED outsideExport

\* Lines 997-1041: the frames are drawn from the surfaces kept.
RenderFrames ==
    /\ exportPc = "static"
    /\ exportPc' = "frames"
    /\ blank' = staticCanvases \cap freed
    /\ UNCHANGED <<staticCanvases, cacheVars>>
    /\ UNCHANGED outsideExport

ExportNext ==
    \/ ClockTick
    \/ DownloadGif
    \/ \E key \in SlotKeys : PrerenderStatic(key)
    \/ \E key \in SlotKeys : PreviewRender(key)
    \/ RenderFrames

ExportInit ==
    /\ CacheStart /\ ResolveIdle /\ PixelIdle /\ RenderIdle /\ CompositeIdle
    /\ SchedIdle /\ DecodeIdle /\ EncodeIdle /\ LayoutIdle /\ HitIdle
    /\ LoaderIdle /\ FnIdle /\ StoreIdle
    /\ exportPc = "idle" /\ staticCanvases = {} /\ blank = {}

SpecExport == ExportInit /\ [][ExportNext]_vars

\* C21: a surface renderSlot has stored in the cache and returned keeps its
\* size and pixels while the export holds it, and is drawn as it was
\* returned.
C21_HeldSurfaceUnchanged ==
    /\ exportPc = "static" => staticCanvases \cap freed = {}
    /\ blank = {}

\* The export holds a surface that is still in the cache after another
\* render has evicted an entry.
HeldSurfaceKept ==
    /\ exportPc = "static"
    /\ \E c \in staticCanvases : c \notin freed /\ c \in {entries[i].canvas : i \in 1..Len(entries)}
    /\ freed # {}
(***************************************************************************)
(* pickBlendOp over every runtime (part_001 lines 18-41)                   *)
(***************************************************************************)
\* The operators a caller may ask for: the ones FILTERS and the Custom step
\* name ("color", "source-atop"), the other probed ones, and one that is
\* never probed.
DesiredOps == ProbedOps \cup {"multiply"}

\* SUPPORTED_BLEND_OPS holds the probed operators the canvas kept (lines 18-33).
Runtimes == SUBSET ProbedOps

\* A call of a pure function that has not returned yet.
FnPending(fn) == fnCall # <<>> /\ fnCall.fn = fn /\ fnResult = <<>>

FnReturned(fn) == fnCall # <<>> /\ fnCall.fn = fn /\ fnResult # <<>>

PickBlend ==
    /\ FnPending("pickBlendOp")
    /\ fnResult' = <<PickBlendOp(fnCall.supported, fnCall.desired)>>
    /\ UNCHANGED <<fnCall, outsideFn>>

BlendNext == PickBlend

BlendInit ==
    /\ CacheStart /\ ResolveIdle /\ PixelIdle /\ RenderIdle
    /\ CompositeIdle /\ SchedIdle /\ DecodeIdle /\ EncodeIdle /\ LayoutIdle
    /\ HitIdle /\ LoaderIdle /\ ExportIdle /\ StoreIdle
    /\ fnCall \in [fn : {"pickBlendOp"}, supported : Runtimes, desired : DesiredOps]
    /\ fnResult = <<>>

SpecBlend == BlendInit /\ [][BlendNext]_vars

\* The fallback order of the documentation, source-atop being what is left
\* when none of these is supported.
FallbackOrder == <<"color", "hue", "saturation", "overlay", "screen", "lighter">>

RECURSIVE FirstSupported(_, _)
FirstSupported(order, sup) ==
    IF order = <<>> THEN "source-atop"
    ELSE IF Head(order) \in sup THEN Head(order)
    ELSE FirstSupported(Tail(order), sup)

PickedBlend == FnReturned("pickBlendOp")

\* C33: pickBlendOp returns the requested operator when the runtime supports
\* it, otherwise the first supported operator in the order color, hue,
\* saturation, overlay, screen, lighter, and source-atop when none is; the
\* result is a supported operator or source-atop.
C33_FallbackOrder ==
    PickedBlend =>
        LET sup == fnCall.supported
            desired == fnCall.desired
            got == fnResult[1]
        IN  /\ desired \in sup => got = desired
            /\ desired \notin sup => got = FirstSupported(FallbackOrder, sup)
            /\ got \in sup \cup {"source-atop"}

\* What the code does hold: the requested operator when supported, else
\* overlay, screen, lighter, source-atop.
PickedSupportedOrFlat ==
    PickedBlend =>
        LET sup == fnCall.supported
            got == fnResult[1]
        IN  /\ fnCall.desired \in sup => got = fnCall.desired
            /\ fnCall.desired \notin sup =>
                   got = FirstSupported(<<"overlay", "screen", "lighter">>, sup)
            /\ got \in sup \cup {"source-atop"}
(***************************************************************************)
(* getSpriteFrameAnchor (render-cache.ts lines 394-426).  Anchors are in   *)
(* millionths of the sprite's size.                                        *)
(***************************************************************************)
Anchor(x, y) == [x |-> x, y |-> y]

\* The keys of TALL_PLANT_ANCHORS (lines 394-397).
TALL_PLANT_ANCHORS(spriteId) ==
    CASE spriteId = "sprite/tall-plant/Bamboo" -> {Anchor(519573, 964063)}
      [] spriteId = "sprite/tall-plant/Cactus" -> {Anchor(517937, 952344)}
      [] OTHER -> {}

\* The sprite ids of the anchor specification, in the order the sprite
\* data lists them: one of the table, one tall plant that is not in it,
\* one with the pattern's optional hyphen left out, one that is no tall plant.
AnchorIds == <<"sprite/tall-plant/Bamboo", "sprite/tall-plant/Palm",
               "sprite/TallPlant/Fern", "sprite/plant/Carrot">>

\* /tall-?plant/i over these ids (line 423).
MatchesTallPlant(spriteId) ==
    spriteId \in {"sprite/tall-plant/Bamboo", "sprite/tall-plant/Cactus",
                  "sprite/tall-plant/Palm", "sprite/TallPlant/Fern"}

\* frame.anchor of the sprite data: absent, or one of these.
ExplicitAnchors == {Anchor(400000, 800000)}

\* Where the sprite data lists an id: nowhere (cat 0), or in one of two
\* categories as a frame or an animation, with or without an anchor.
Listings ==
    [cat : 0 .. 2, type : {"frame", "animation"},
     anchor : {{}} \cup {{a} : a \in ExplicitAnchors}]

\* One listing per id; an id that is not listed has one representative.
SpriteDataChoices ==
    {p \in [1 .. Len(AnchorIds) -> Listings] :
        \A i \in DOMAIN p : p[i].cat = 0 => p[i].type = "frame" /\ p[i].anchor = {}}

RECURSIVE ItemsOf(_, _, _)
ItemsOf(p, cat, i) ==
    IF i > Len(AnchorIds) THEN <<>>
    ELSE (IF p[i].cat = cat
          THEN <<[id |-> AnchorIds[i], type |-> p[i].type, anchor |-> p[i].anchor]>>
          ELSE <<>>)
         \o ItemsOf(p, cat, i + 1)

\* state.spriteData.categories as a sequence of item sequences.
SpriteDataOf(p) == <<ItemsOf(p, 1, 1), ItemsOf(p, 2, 1)>>

\* The inner loop of lines 412-418: the first frame with this id ends the
\* scan of its category, returning its anchor if it has one.
RECURSIVE ScanItems(_, _)
ScanItems(items, spriteId) ==
    IF items = <<>> THEN {}
    ELSE IF Head(items).id = spriteId /\ Head(items).type = "frame"
         THEN Head(items).anchor
         ELSE ScanItems(Tail(items), spriteId)

RECURSIVE ScanCategories(_, _)
ScanCategories(cats, spriteId) ==
    IF cats = <<>> THEN {}
    ELSE IF ScanItems(Head(cats), spriteId) # {}
         THEN ScanItems(Head(cats), spriteId)
         ELSE ScanCategories(Tail(cats), spriteId)

\* getSpriteFrameAnchor; sd is {} for a null state.spriteData.
GetSpriteFrameAnchor(spriteId, sd) ==
    IF TALL_PLANT_ANCHORS(spriteId) # {} THEN The(TALL_PLANT_ANCHORS(spriteId))
    ELSE IF sd # {} /\ ScanCategories(The(sd), spriteId) # {}
         THEN The(ScanCategories(The(sd), spriteId))
    ELSE IF MatchesTallPlant(spriteId) THEN Anchor(500000, 960000)
    ELSE Anchor(500000, 500000)

LookUpAnchor ==
    /\ FnPending("getSpriteFrameAnchor")
    /\ fnResult' = <<GetSpriteFrameAnchor(fnCall.spriteId, fnCall.spriteData)>>
    /\ UNCHANGED <<fnCall, outsideFn>>

AnchorNext == LookUpAnchor

AnchorInit ==
    /\ CacheStart /\ ResolveIdle /\ PixelIdle /\ RenderIdle
    /\ CompositeIdle /\ SchedIdle /\ DecodeIdle /\ EncodeIdle /\ LayoutIdle
    /\ HitIdle /\ LoaderIdle /\ ExportIdle /\ StoreIdle
    /\ \E i \in DOMAIN AnchorIds,
          sd \in {{}} \cup {{SpriteDataOf(p)} : p \in SpriteDataChoices} :
           fnCall = [fn |-> "getSpriteFrameAnchor", spriteId |-> AnchorIds[i],
                     spriteData |-> sd]
    /\ fnResult = <<>>

SpecAnchor == AnchorInit /\ [][AnchorNext]_vars

ItemsIn(sd) == UNION {Range(cat) : cat \in Range(The(sd))}

\* The anchors the sprite data gives for a sprite.
ExplicitOf(spriteId, sd) ==
    IF sd = {} THEN {}
    ELSE UNION {it.anchor : it \in {i \in ItemsIn(sd) :
                                       i.id = spriteId /\ i.type = "frame"}}

DefaultAnchor(spriteId) ==
    IF MatchesTallPlant(spriteId) THEN Anchor(500000, 960000)
    ELSE Anchor(500000, 500000)

\* C34: an anchor the sprite data gives for the sprite is the result; the
\* table TALL_PLANT_ANCHORS is used only for a sprite the data gives no
\* anchor for; with neither, the result is (0.5, 0.96) for a key matching
\* the tall-plant pattern and (0.5, 0.5) for any other.
C34_ExplicitAnchorFirst ==
    FnReturned("getSpriteFrameAnchor") =>
        LET explicit == ExplicitOf(fnCall.spriteId, fnCall.spriteData)
            curated == TALL_PLANT_ANCHORS(fnCall.spriteId)
            got == fnResult[1]
        IN  /\ explicit # {} => got \in explicit
            /\ explicit = {} /\ curated # {} => got \in curated
            /\ explicit = {} /\ curated = {} => got = DefaultAnchor(fnCall.spriteId)

\* What the code does hold: the table first, then the sprite data, then
\* the defaults.
CuratedAnchorFirst ==
    FnReturned("getSpriteFrameAnchor") =>
        LET explicit == ExplicitOf(fnCall.spriteId, fnCall.spriteData)
            curated == TALL_PLANT_ANCHORS(fnCall.spriteId)
            got == fnResult[1]
        IN  /\ curated # {} => got \in curated
            /\ curated = {} /\ explicit # {} => got \in explicit
            /\ explicit = {} /\ curated = {} => got = DefaultAnchor(fnCall.spriteId)
(***************************************************************************)
(* renderSlot: the draw operations and the padded output canvas            *)
(* (render-cache.ts lines 140-310).  Lengths are in quarters of a pixel,   *)
(* so that the icons' fractional positions are kept.                       *)
(***************************************************************************)
\* origW and origH (lines 124-125): a sprite of 4 by 4 pixels.
OrigW == 4 * Quarter
OrigH == 4 * Quarter

Rect(x, y, w, h) == [x |-> x, y |-> y, w |-> w, h |-> h]

\* Where an op may land: inside the sprite, over its left and top edge by
\* a fraction of a pixel, over its right and bottom edge, and over both
\* sides.
Rects == {Rect(2, 2, 8, 8), Rect(-5, -3, 8, 8), Rect(10, 12, 9, 9),
          Rect(-16, 0, 48, 16)}

\* The outcome of an op's spriteLoader.load: {} when it rejects.
LoadOutcomes == {{}} \cup {{r} : r \in Rects}

DrawKeys == {"sprite/plant/Carrot", "sprite/tall-plant/Bamboo"}

DrawIds == {"Wet", "Chilled", "Dawnlit", "Ambershine"}

\* slot.mutations: up to MaxDrawn different ids in any order.
DrawSelections ==
    {sel \in UNION {[1 .. n -> DrawIds] : n \in 0 .. MaxDrawn} :
        \A i, j \in DOMAIN sel : i # j => sel[i] # sel[j]}

DrawSlots ==
    [spriteKey : DrawKeys, mutations : DrawSelections,
     options : [icons : BOOLEAN, overlays : BOOLEAN]]

\* Lines 149-179 and 196-262 when every load succeeds: the ops in the order
\* they are pushed, each with the mutation it belongs to.
RECURSIVE IconsWanted(_, _, _)
IconsWanted(muts, spriteKey, tall) ==
    IF muts = <<>> THEN <<>>
    ELSE (IF IconOf(Head(muts), spriteKey, tall, spriteKey) = {} THEN <<>>
          ELSE <<[mut |-> Head(muts), what |-> "icon",
                  z |-> The(IconOf(Head(muts), spriteKey, tall, spriteKey)).z]>>)
         \o IconsWanted(Tail(muts), spriteKey, tall)

RECURSIVE OverlaysWanted(_, _)
OverlaysWanted(muts, spriteKey) ==
    IF muts = <<>> THEN <<>>
    ELSE (IF OverlayOf(Head(muts), spriteKey) = {} THEN <<>>
          ELSE <<[mut |-> Head(muts), what |-> "overlay",
                  z |-> The(OverlayOf(Head(muts), spriteKey)).z]>>)
         \o OverlaysWanted(Tail(muts), spriteKey)

\* Line 146
EntersOps(s) ==
    s.options.icons \/ (IsTallKey(s.spriteKey) /\ s.options.overlays)

OpsWanted(s) ==
    IF ~EntersOps(s) THEN <<>>
    ELSE (IF s.options.icons
          THEN IconsWanted(ResolveActiveMutations(s.mutations), s.spriteKey,
                           IsTallKey(s.spriteKey))
          ELSE <<>>)
         \o (IF IsTallKey(s.spriteKey) /\ s.options.overlays
             THEN OverlaysWanted(ResolveActiveMutations(s.mutations), s.spriteKey)
             ELSE <<>>)

\* ops.push(...) of lines 175 and 256: the ops whose load succeeded, n being
\* the op's place among the ones wanted.
RECURSIVE Pushed(_, _, _)
Pushed(wanted, loads, n) ==
    IF n > Len(wanted) THEN <<>>
    ELSE (IF loads[n] = {} THEN <<>>
          ELSE <<[mut |-> wanted[n].mut, what |-> wanted[n].what,
                  z |-> wanted[n].z, n |-> n,
                  x |-> The(loads[n]).x, y |-> The(loads[n]).y,
                  w |-> The(loads[n]).w, h |-> The(loads[n]).h]>>)
         \o Pushed(wanted, loads, n + 1)

Max(a, b) == IF a > b THEN a ELSE b

\* Math.floor of a length, in pixels.
FloorPx(q) == q \div Quarter

\* Math.ceil of a length, in pixels.
CeilPx(q) == -((-q) \div Quarter)

\* Math.min and Math.max folded over a loop.
Least(values) == CHOOSE x \in values : \A y \in values : x <= y

Greatest(values) == CHOOSE x \in values : \A y \in values : x >= y

\* Lines 270-278, in pixels.
PadH(drawOps) ==
    LET minX == Least({0} \cup {drawOps[i].x : i \in DOMAIN drawOps})
        maxX == Greatest({OrigW}
                         \cup {drawOps[i].x + drawOps[i].w : i \in DOMAIN drawOps})
    IN Max(Max(0, CeilPx(-minX)), Max(0, CeilPx(maxX - OrigW)))

PadV(drawOps) ==
    LET minY == Least({0} \cup {drawOps[i].y : i \in DOMAIN drawOps})
        maxY == Greatest({OrigH}
                         \cup {drawOps[i].y + drawOps[i].h : i \in DOMAIN drawOps})
    IN Max(Max(0, CeilPx(-minY)), Max(0, CeilPx(maxY - OrigH)))

BaseDraw(x, y) ==
    [mut |-> "", what |-> "base", z |-> 0, n |-> 0,
     x |-> x, y |-> y, w |-> OrigW, h |-> OrigH]

Shifted(op, dx, dy) == [op EXCEPT !.x = @ + dx, !.y = @ + dy]

RECURSIVE ShiftedAll(_, _, _)
ShiftedAll(drawOps, dx, dy) ==
    IF drawOps = <<>> THEN <<>>
    ELSE <<Shifted(Head(drawOps), dx, dy)>> \o ShiftedAll(Tail(drawOps), dx, dy)

\* Lines 266-310: the output canvas and the drawImage calls made on it, in
\* the order they are made.  Without ops the canvas of line 119 is kept.
Output(drawOps) ==
    IF drawOps = <<>>
    THEN [composited |-> FALSE, width |-> OrigW, height |-> OrigH,
          padH |-> 0, padV |-> 0, draws |-> <<BaseDraw(0, 0)>>]
    ELSE LET dx == PadH(drawOps) * Quarter
             dy == PadV(drawOps) * Quarter
             sorted == SortByZ(drawOps)
         IN [composited |-> TRUE,
             width |-> OrigW + 2 * dx, height |-> OrigH + 2 * dy,
             padH |-> PadH(drawOps), padV |-> PadV(drawOps),
             draws |-> ShiftedAll(SelectSeq(sorted, LAMBDA op : op.z < 0), dx, dy)
                       \o <<BaseDraw(dx, dy)>>
                       \o ShiftedAll(SelectSeq(sorted, LAMBDA op : op.z >= 0),
                                     dx, dy)]

DrawSlot ==
    /\ FnPending("renderSlot")
    /\ fnResult' = <<Output(Pushed(OpsWanted(fnCall.slot), fnCall.loads, 1))>>
    /\ UNCHANGED <<fnCall, outsideFn>>

DrawNext == DrawSlot

DrawInit ==
    /\ CacheStart /\ ResolveIdle /\ PixelIdle /\ RenderIdle
    /\ CompositeIdle /\ SchedIdle /\ DecodeIdle /\ EncodeIdle /\ LayoutIdle
    /\ HitIdle /\ LoaderIdle /\ ExportIdle /\ StoreIdle
    /\ \E s \in DrawSlots :
         \E loads \in [1 .. Len(OpsWanted(s)) -> LoadOutcomes] :
            fnCall = [fn |-> "renderSlot", slot |-> s, loads |-> loads]
    /\ fnResult = <<>>

SpecDraw == DrawInit /\ [][DrawNext]_vars

Drawn == FnReturned("renderSlot")

\* The z the documentation gives an op.
DocumentedZ(d, tall) ==
    IF d.what = "overlay" THEN 3
    ELSE IF The(MUTATION_META(d.mut)).floatingIcon THEN 10
    ELSE IF tall THEN -1 ELSE 2

\* C35: the draws of one render are made in non-decreasing z, the base
\* sprite at z = 0: behind-icons of tall plants (z = -1) before the base,
\* regular icons (z = 2) after it, tall-plant overlays (z = 3) after those,
\* floating icons (z = 10) last on tall and other sprites alike; ops of
\* equal z are drawn in the order they were collected.
C35_DrawnByZStable ==
    Drawn =>
        LET draws == fnResult[1].draws
            tall == IsTallKey(fnCall.slot.spriteKey)
        IN  /\ \A i, j \in DOMAIN draws :
                 i < j => /\ draws[i].z <= draws[j].z
                          /\ draws[i].z = draws[j].z => draws[i].n < draws[j].n
            /\ \A i \in DOMAIN draws :
                 draws[i].what # "base" => draws[i].z = DocumentedZ(draws[i], tall)
            /\ Cardinality({i \in DOMAIN draws : draws[i].what = "base"}) = 1
            /\ Len(draws) = 1 + Cardinality({n \in DOMAIN fnCall.loads :
                                               fnCall.loads[n] # {}})

ZsOf(draws) == [i \in DOMAIN draws |-> draws[i].z]

\* A tall plant drawn with a behind-icon, an overlay collected after two
\* floating icons, and the floating icons on top; and a plant with two
\* regular icons.
C35_Witness ==
    /\ Drawn
    /\ ZsOf(fnResult[1].draws) = <<-1, 0, 3, 10, 10>>

TwoRegularIcons ==
    /\ Drawn
    /\ ZsOf(fnResult[1].draws) = <<0, 2, 2, 10>>

\* C36: with at least one op the output measures (w + 2 padH) by
\* (h + 2 padV) for integers padH, padV >= 0, the base sprite is drawn at
\* (padH, padV) with its centre at the centre of the output, and the
\* shifted rectangle of every draw lies inside the output.
C36_PaddedNothingClipped ==
    Drawn /\ fnResult[1].composited =>
        LET out == fnResult[1] IN
        /\ out.padH \in Nat /\ out.padV \in Nat
        /\ out.width = OrigW + 2 * out.padH * Quarter
        /\ out.height = OrigH + 2 * out.padV * Quarter
        /\ \A i \in DOMAIN out.draws :
             LET d == out.draws[i] IN
             /\ d.what = "base" =>
                  /\ d.x = out.padH * Quarter /\ d.y = out.padV * Quarter
                  /\ 2 * d.x + d.w = out.width /\ 2 * d.y + d.h = out.height
             /\ 0 <= d.x /\ d.x + d.w <= out.width
             /\ 0 <= d.y /\ d.y + d.h <= out.height

\* An op hanging over the left edge by a fraction of a pixel and one over
\* the right edge: the padding is the larger overhang, rounded up.
C36_Witness ==
    /\ Drawn /\ fnResult[1].composited
    /\ fnResult[1].padH = 2 /\ fnResult[1].padV = 2
    /\ \E i \in DOMAIN fnResult[1].draws : fnResult[1].draws[i].x = 3
    /\ Len(fnResult[1].draws) >= 3
(***************************************************************************)
(* findIconKey over every known id set (icon-layout.ts lines 111-178)      *)
(***************************************************************************)
\* getSpriteIdSet (lines 160-173): the cached set when there is one, else
\* the ids of state.spriteData; {} stands for null.
GetSpriteIdSetOf(spriteIdSet, dataIds) ==
    IF spriteIdSet # {} THEN The(spriteIdSet) ELSE dataIds

IconKeyNames == {"", "Wet", "Ambershine"}

IconKeyOverrides == {{}, {"sprite/mutation/Puddle"}}

\* Every id findIconKey may ask for in one call, and one it never asks for.
AskedIds(itemKey, mutName, isTall, override) ==
    (IF isTall THEN override ELSE {})
    \cup Range(AliasTries(MutationAliases(mutName), BaseNameOf(itemKey), isTall))
    \cup {itemKey}

FindIcon ==
    /\ FnPending("findIconKey")
    /\ fnResult' = <<FindIconKeyIn(GetSpriteIdSetOf(fnCall.spriteIdSet, fnCall.dataIds),
                                   fnCall.itemKey, fnCall.mutName, fnCall.isTall,
                                   fnCall.meta)>>
    /\ UNCHANGED <<fnCall, outsideFn>>

IconKeyNext == FindIcon

\* The cache is null or holds the ids of the sprite data: init clears it
\* when the data arrives (part_003 line 185).
IconKeyInit ==
    /\ CacheStart /\ ResolveIdle /\ PixelIdle /\ RenderIdle
    /\ CompositeIdle /\ SchedIdle /\ DecodeIdle /\ EncodeIdle /\ LayoutIdle
    /\ HitIdle /\ LoaderIdle /\ ExportIdle /\ StoreIdle
    /\ \E itemKey \in DrawKeys, mutName \in IconKeyNames, isTall \in BOOLEAN,
          override \in IconKeyOverrides :
         \E dataIds \in SUBSET AskedIds(itemKey, mutName, isTall, override) :
            \E spriteIdSet \in {{}, {dataIds}} :
               /\ Cardinality(dataIds) <= MaxKnown
               /\ fnCall = [fn |-> "findIconKey", itemKey |-> itemKey,
                            mutName |-> mutName, isTall |-> isTall,
                            meta |-> MutationMeta({}, override, FALSE),
                            dataIds |-> dataIds, spriteIdSet |-> spriteIdSet]
    /\ fnResult = <<>>

SpecIconKey == IconKeyInit /\ [][IconKeyNext]_vars

\* The candidates of the documentation for one alias.
AliasCandidates(name, base, isTall) ==
    (IF isTall
     THEN <<"sprite/mutation-overlay/" \o name \o "TallPlantIcon",
            "sprite/mutation-overlay/" \o name \o "TallPlant">>
     ELSE <<>>)
    \o <<"sprite/mutation/" \o name \o "Icon",
         "sprite/mutation/" \o name,
         "sprite/mutation/" \o name \o base,
         "sprite/mutation/" \o name \o "-" \o base,
         "sprite/mutation/" \o name \o "_" \o base,
         "sprite/mutation/" \o name \o "/" \o base>>

\* The candidates of a call in the documented order.
Candidates(c) ==
    LET base == BaseNameOf(c.itemKey)
        names == IF c.mutName = "Ambershine" THEN <<"Ambershine", "Amberlit">>
                 ELSE <<c.mutName>>
    IN (IF c.isTall THEN OptSeq(c.meta.tallPlantIconOverride) ELSE <<>>)
       \o AliasCandidates(names[1], base, c.isTall)
       \o (IF Len(names) > 1 THEN AliasCandidates(names[2], base, c.isTall)
           ELSE <<>>)

FoundIcon == FnReturned("findIconKey")

\* C37: findIconKey returns null or a known id; the id is the first
\* candidate that is known, in the order override (tall only), then per
\* alias the tall patterns (tall only) and the six standard patterns; it
\* returns null exactly when the name is empty or no candidate is known.
C37_FirstKnownCandidate ==
    FoundIcon =>
        LET known == GetSpriteIdSetOf(fnCall.spriteIdSet, fnCall.dataIds)
            cands == Candidates(fnCall)
            hits == {i \in DOMAIN cands : cands[i] \in known}
            got == fnResult[1]
        IN  /\ got = {} \/ (\E id \in known : got = {id})
            /\ got = {} <=> (fnCall.mutName = "" \/ hits = {})
            /\ got # {} => \E i \in hits : /\ got = {cands[i]}
                                           /\ \A j \in hits : i <= j

\* A tall sprite whose known ids hold a standard pattern of the first
\* alias and a tall pattern of the second: the first alias wins.
C37_Witness ==
    /\ FoundIcon
    /\ fnCall.isTall /\ fnCall.mutName = "Ambershine"
    /\ fnCall.dataIds = {"sprite/mutation/Ambershine",
                         "sprite/mutation-overlay/AmberlitTallPlant"}
    /\ fnResult[1] = {"sprite/mutation/Ambershine"}

\* A tall sprite with a known override and a known tall pattern.
OverrideFirst ==
    /\ FoundIcon /\ fnCall.isTall
    /\ fnCall.dataIds = {"sprite/mutation/Puddle",
                         "sprite/mutation-overlay/WetTallPlantIcon"}
    /\ fnResult[1] = {"sprite/mutation/Puddle"}
(***************************************************************************)
(* The store: state.slots, the active index, undo and redo (part_003).     *)
(* A slot object is a record of the fields the operations below write,     *)
(* an absent field being {} and a present one {value}; ref is the          *)
(* object's identity, which Array.prototype.indexOf compares.  Indices     *)
(* are the 0-based indices of the code.                                    *)
(***************************************************************************)
\* createEmptySlot(index) (lines 43-58)
EmptySlotAt(index, ref) ==
    [id |-> index, spriteKey |-> "", gifFrames |-> {}, isAnimated |-> {},
     ref |-> ref]

\* A decoded GIF of one frame: its canvas and delay.
DecodedFrames == <<[canvas |-> "HTMLCanvasElement", delay |-> 100]>>

\* The `changes` of updateSlot: picking a sprite, and the GIF upload of
\* part_006 lines 414-428.
SpriteChanges == {[spriteKey |-> "Carrot"]}

GifChanges ==
    {[spriteKey |-> "upload", gifFrames |-> {DecodedFrames}, isAnimated |-> {TRUE}]}

\* Object.assign(slot, changes)
ObjectAssign(s, changes) ==
    [f \in DOMAIN s |-> IF f \in DOMAIN changes THEN changes[f] ELSE s[f]]

\* The value of a slot object: its fields without the identity.
ValueOf(s) == [f \in DOMAIN s \ {"ref"} |-> s[f]]

ValuesOf(list) == [i \in DOMAIN list |-> ValueOf(list[i])]

\* JSON.parse(JSON.stringify(slot)): a canvas has no enumerable property
\* of its own and is written as {}; numbers, strings and booleans are kept.
JsonFrames(fs) == [i \in DOMAIN fs |-> [fs[i] EXCEPT !.canvas = "{}"]]

JsonOfSlot(v) ==
    [v EXCEPT !.gifFrames = IF @ = {} THEN {} ELSE {JsonFrames(The(@))}]

JsonOf(list) == [i \in DOMAIN list |-> JsonOfSlot(ValueOf(list[i]))]

\* The objects JSON.parse made, with identities of their own.
Parsed(json) ==
    [i \in DOMAIN json |->
        [f \in DOMAIN json[i] \cup {"ref"} |-> IF f = "ref" THEN i ELSE json[i][f]]]

\* An entry of undoStack or redoStack: the copy, and (ghost) the value of
\* state.slots it was copied from.
Snapshot(list) == [json |-> JsonOf(list), was |-> ValuesOf(list)]

\* pushUndo (lines 85-89)
PushedUndo(stack, list) ==
    LET pushed == Append(stack, Snapshot(list)) IN
    IF Len(pushed) > MAX_UNDO THEN Tail(pushed) ELSE pushed

\* An identity no object of the list has.
FreshRef(list) ==
    CHOOSE r \in 1 .. Len(list) + 1 : \A i \in DOMAIN list : list[i].ref # r

\* lines 146-150: splice the slot out and in again.
Spliced(list, fromIndex, insertBefore) ==
    LET moved == list[fromIndex + 1]
        rest == RemoveAt(list, fromIndex + 1)
        adjustedPos == IF insertBefore > fromIndex THEN insertBefore - 1
                       ELSE insertBefore
    IN SubSeq(rest, 1, adjustedPos) \o <<moved>>
       \o SubSeq(rest, adjustedPos + 1, Len(rest))

\* The active index left where it was.
ActiveIndexKept(newSlots, activeSlot) == activeSlotIndex

\* newSlots.indexOf(activeSlot) (line 151), -1 when it is not there.
IndexOfSlot(newSlots, activeSlot) ==
    LET at == {i \in DOMAIN newSlots : newSlots[i].ref = activeSlot.ref} IN
    IF at = {} THEN -1 ELSE (CHOOSE i \in at : \A j \in at : i <= j) - 1

\* Ghost: the operation just made and the state it found.
StoreCall(op, index, other) ==
    [op |-> op, index |-> index, other |-> other,
     slots |-> stateSlots, active |-> activeSlotIndex,
     undo |-> undoStack, redo |-> redoStack,
     n |-> IF lastEdit = <<>> THEN 1 ELSE lastEdit.n + 1]

StoreOps == IF lastEdit = <<>> THEN 0 ELSE lastEdit.n

SlotIndices == 0 .. NumSlots - 1

\* updateSlot (lines 109-114)
StoreUpdateSlot(index, changes) ==
    /\ StoreOps < MaxStoreOps
    /\ undoStack' = PushedUndo(undoStack, stateSlots)
    /\ redoStack' = <<>>
    /\ stateSlots' = [stateSlots EXCEPT ![index + 1] = ObjectAssign(@, changes)]
    /\ lastEdit' = StoreCall("updateSlot", index, 0)
    /\ UNCHANGED <<activeSlotIndex, batchUndoPushed, outsideStore>>

\* updateSlotSilent (lines 117-121)
UpdateSlotSilent(index, changes) ==
    /\ StoreOps < MaxStoreOps
    /\ stateSlots' = [stateSlots EXCEPT ![index + 1] = ObjectAssign(@, changes)]
    /\ lastEdit' = StoreCall("updateSlotSilent", index, 0)
    /\ UNCHANGED <<activeSlotIndex, undoStack, redoStack, batchUndoPushed,
                   outsideStore>>

\* beginBatchUpdate (lines 127-134)
BeginBatchUpdate ==
    /\ StoreOps < MaxStoreOps
    /\ IF ~batchUndoPushed
       THEN /\ undoStack' = PushedUndo(undoStack, stateSlots)
            /\ redoStack' = <<>>
       ELSE UNCHANGED <<undoStack, redoStack>>
    /\ batchUndoPushed' = TRUE
    /\ lastEdit' = StoreCall("beginBatchUpdate", 0, 0)
    /\ UNCHANGED <<stateSlots, activeSlotIndex, outsideStore>>

\* The timer of line 133, 500 ms after the last beginBatchUpdate.
BatchTimer ==
    /\ batchUndoPushed
    /\ batchUndoPushed' = FALSE
    /\ UNCHANGED <<stateSlots, activeSlotIndex, undoStack, redoStack, lastEdit,
                   outsideStore>>

\* setActiveSlot (lines 136-139)
SetActiveSlot(index) ==
    /\ StoreOps < MaxStoreOps
    /\ activeSlotIndex' = index
    /\ lastEdit' = StoreCall("setActiveSlot", index, 0)
    /\ UNCHANGED <<stateSlots, undoStack, redoStack, batchUndoPushed, outsideStore>>

\* reorderSlots (lines 141-154)
ReorderSlots(fromIndex, insertBefore) ==
    /\ StoreOps < MaxStoreOps
    /\ lastEdit' = StoreCall("reorderSlots", fromIndex, insertBefore)
    /\ IF fromIndex = insertBefore \/ fromIndex + 1 = insertBefore
       THEN UNCHANGED <<stateSlots, activeSlotIndex, undoStack, redoStack>>
       ELSE /\ undoStack' = PushedUndo(undoStack, stateSlots)
            /\ redoStack' = <<>>
            /\ stateSlots' = Spliced(stateSlots, fromIndex, insertBefore)
            /\ activeSlotIndex' =
                 IndexOfSlot(stateSlots', stateSlots[activeSlotIndex + 1])
    /\ UNCHANGED <<batchUndoPushed, outsideStore>>

\* clearSlot (lines 156-161)
StoreClearSlot(index) ==
    /\ StoreOps < MaxStoreOps
    /\ undoStack' = PushedUndo(undoStack, stateSlots)
    /\ redoStack' = <<>>
    /\ stateSlots' = [stateSlots EXCEPT
                        ![index + 1] = EmptySlotAt(index, FreshRef(stateSlots))]
    /\ lastEdit' = StoreCall("clearSlot", index, 0)
    /\ UNCHANGED <<activeSlotIndex, batchUndoPushed, outsideStore>>

\* undo (lines 91-98)
Undo ==
    /\ StoreOps < MaxStoreOps
    /\ lastEdit' = StoreCall("undo", 0, 0)
    /\ IF undoStack = <<>>
       THEN UNCHANGED <<stateSlots, undoStack, redoStack>>
       ELSE /\ undoStack' = SubSeq(undoStack, 1, Len(undoStack) - 1)
            /\ redoStack' = Append(redoStack, Snapshot(stateSlots))
            /\ stateSlots' = Parsed(undoStack[Len(undoStack)].json)
    /\ UNCHANGED <<activeSlotIndex, batchUndoPushed, outsideStore>>

\* redo (lines 100-107)
Redo ==
    /\ StoreOps < MaxStoreOps
    /\ lastEdit' = StoreCall("redo", 0, 0)
    /\ IF redoStack = <<>>
       THEN UNCHANGED <<stateSlots, undoStack, redoStack>>
       ELSE /\ redoStack' = SubSeq(redoStack, 1, Len(redoStack) - 1)
            /\ undoStack' = Append(undoStack, Snapshot(stateSlots))
            /\ stateSlots' = Parsed(redoStack[Len(redoStack)].json)
    /\ UNCHANGED <<activeSlotIndex, batchUndoPushed, outsideStore>>

\* The state of lines 63-79.
StoreStart ==
    /\ stateSlots = [i \in 1 .. NumSlots |-> EmptySlotAt(i - 1, i)]
    /\ activeSlotIndex = 0
    /\ undoStack = <<>>
    /\ redoStack = <<>>
    /\ batchUndoPushed = FALSE
    /\ lastEdit = <<>>

StoreNext ==
    \/ \E index \in SlotIndices, changes \in SpriteChanges \cup GifChanges :
          StoreUpdateSlot(index, changes)
    \/ \E index \in SlotIndices, changes \in SpriteChanges :
          UpdateSlotSilent(index, changes)
    \/ BeginBatchUpdate
    \/ BatchTimer
    \/ \E index \in SlotIndices : SetActiveSlot(index)
    \/ \E fromIndex \in SlotIndices, insertBefore \in 0 .. NumSlots :
          ReorderSlots(fromIndex, insertBefore)
    \/ \E index \in SlotIndices : StoreClearSlot(index)
    \/ Undo
    \/ Redo

StoreInit ==
    /\ CacheStart /\ ResolveIdle /\ PixelIdle /\ RenderIdle
    /\ CompositeIdle /\ SchedIdle /\ DecodeIdle /\ EncodeIdle /\ LayoutIdle
    /\ HitIdle /\ LoaderIdle /\ ExportIdle /\ FnIdle
    /\ StoreStart

SpecStore == StoreInit /\ [][StoreNext]_vars

RefsOf(list) == {list[i].ref : i \in DOMAIN list}

\* Every object of state.slots has an identity of its own.
DistinctObjects ==
    \A i, j \in DOMAIN stateSlots : i # j => stateSlots[i].ref # stateSlots[j].ref

\* C39: state.slots always holds exactly the fixed number of slots;
\* clearSlot puts an empty slot at its index and leaves the others,
\* reorderSlots only moves slots, and the active index designates a slot of
\* the list, after reorderSlots the object that was active before.
C39_FixedPoolActiveInRange ==
    /\ Len(stateSlots) = NumSlots
    /\ activeSlotIndex \in SlotIndices
    /\ lastEdit # <<>> /\ lastEdit.op = "clearSlot" =>
         /\ ValueOf(stateSlots[lastEdit.index + 1])
              = ValueOf(EmptySlotAt(lastEdit.index, 0))
         /\ \A i \in DOMAIN stateSlots :
              i # lastEdit.index + 1 => stateSlots[i] = lastEdit.slots[i]
    /\ lastEdit # <<>> /\ lastEdit.op = "reorderSlots" =>
         /\ RefsOf(stateSlots) = RefsOf(lastEdit.slots)
         /\ \A i \in DOMAIN stateSlots :
              \E j \in DOMAIN lastEdit.slots : stateSlots[i] = lastEdit.slots[j]
         /\ stateSlots[activeSlotIndex + 1].ref
              = lastEdit.slots[lastEdit.active + 1].ref

\* The active slot was moved to another place by reorderSlots.
C39_Witness ==
    /\ lastEdit # <<>> /\ lastEdit.op = "reorderSlots"
    /\ stateSlots # lastEdit.slots
    /\ activeSlotIndex # lastEdit.active
    /\ \E i \in DOMAIN stateSlots : stateSlots[i].spriteKey # ""

\* A slot was cleared after the list had been reordered.
ClearedAfterReorder ==
    /\ lastEdit # <<>> /\ lastEdit.op = "clearSlot"
    /\ lastEdit.slots[lastEdit.index + 1].id # lastEdit.index
    /\ undoStack # <<>>

\* C40: undo puts state.slots back to the value it had before the most
\* recent undoable edit, redo to the value it had before the undo, whatever
\* the slots hold; undo on an empty undo stack and redo on an empty redo
\* stack change nothing.
C40_UndoRedoRestore ==
    /\ lastEdit # <<>> /\ lastEdit.op = "undo" =>
         IF lastEdit.undo = <<>>
         THEN /\ stateSlots = lastEdit.slots /\ undoStack = lastEdit.undo
              /\ redoStack = lastEdit.redo /\ activeSlotIndex = lastEdit.active
         ELSE ValuesOf(stateSlots) = lastEdit.undo[Len(lastEdit.undo)].was
    /\ lastEdit # <<>> /\ lastEdit.op = "redo" =>
         IF lastEdit.redo = <<>>
         THEN /\ stateSlots = lastEdit.slots /\ undoStack = lastEdit.undo
              /\ redoStack = lastEdit.redo /\ activeSlotIndex = lastEdit.active
         ELSE ValuesOf(stateSlots) = lastEdit.redo[Len(lastEdit.redo)].was

HoldsCanvas(list) ==
    \E i \in DOMAIN list : list[i].gifFrames # {}

\* What the code does hold: the same, for lists without decoded frames.
RestoresWithoutFrames ==
    /\ lastEdit # <<>> /\ lastEdit.op = "undo" =>
         IF lastEdit.undo = <<>>
         THEN /\ stateSlots = lastEdit.slots /\ undoStack = lastEdit.undo
              /\ redoStack = lastEdit.redo /\ activeSlotIndex = lastEdit.active
         ELSE \/ HoldsCanvas(lastEdit.undo[Len(lastEdit.undo)].was)
              \/ ValuesOf(stateSlots) = lastEdit.undo[Len(lastEdit.undo)].was
    /\ lastEdit # <<>> /\ lastEdit.op = "redo" =>
         IF lastEdit.redo = <<>>
         THEN /\ stateSlots = lastEdit.slots /\ undoStack = lastEdit.undo
              /\ redoStack = lastEdit.redo /\ activeSlotIndex = lastEdit.active
         ELSE \/ HoldsCanvas(lastEdit.redo[Len(lastEdit.redo)].was)
              \/ ValuesOf(stateSlots) = lastEdit.redo[Len(lastEdit.redo)].was

====
